---- MODULE Spec2Model ----
(***************************************************************************)
(* Verification model of the vgen-tools backend: the auth routes, the auth *)
(* middleware (protect, optionalAuth, authRateLimit, checkUsageLimit), the *)
(* in-memory user model (UserLocal) and the hosted user model              *)
(* (UserSupabase) with the record transforms of config/supabase.js.        *)
(*                                                                         *)
(* Time is counted in seconds.  A JS object is a function from property    *)
(* names to values; a property the object does not have is a name outside  *)
(* its DOMAIN, which is what JS reads as undefined.                        *)
(***************************************************************************)
EXTENDS Integers, Sequences, FiniteSets, TLC

VARIABLES
  now,          \* wall clock (Date.now()), in seconds
  dbOnline,     \* whether calls to the hosted database succeed
  probeDone,    \* whether the isOnline promise awaited by routes/auth.js has resolved
  UserModel,    \* the user model bound in routes/auth.js
  localUsers,   \* UserLocal.users: email -> UserLocal instance
  dbUsers,      \* hosted table "users": id -> row (snake_case columns)
  authAttempts, \* global.authAttempts: ip -> sequence of timestamps
  held,         \* tokens handed out by register/login in this run: user id -> token
  regPw,        \* emails whose register returned 201 -> the password registered
  last,         \* the request handled last and its outcome
  passedLog,    \* per ip, the timestamps of the requests authRateLimit let through
  gatedSeen,    \* gated generation requests made with the held token of a user this month
  reqUser,      \* checkUsageLimit harness: the object protect would put in req.user
  usageLast     \* checkUsageLimit harness: the call made last and its outcome

VARIABLES
  inflight,     \* register requests whose UserLocal.create awaits bcrypt.hash
  created       \* ghost: {id, email} of every register answered 201

authVars == <<now, dbOnline, probeDone, UserModel, localUsers, dbUsers, authAttempts,
              held, regPw, last, passedLog, gatedSeen, reqUser, usageLast>>

concVars == <<inflight, created>>

VARIABLES
  contents,     \* hosted table "content": id -> row (snake_case columns)
  histLast      \* the last call of a history controller function and its result

VARIABLES
  atsEarlier,   \* ghost: some earlier call of calculateATSScore and its result
  atsLast       \* the last call of calculateATSScore and its result

\* the state outside the user backends
nonUserVars == <<contents, histLast, atsEarlier, atsLast>>

VARIABLES
  resetSent,    \* ghost: {email, token, expires} of every reset token generated
  usageReqs,    \* requests in flight behind protect: the req.user each of them holds
  cardLast      \* the last call of a flashcard controller function and its result

extraVars == <<resetSent, usageReqs, cardLast>>

otherVars == <<concVars, nonUserVars, extraVars>>

vars == <<authVars, otherVars>>

----------------------------------------------------------------------------
(* Bounds of the model *)

MaxBigTicks == 1       \* token lifetimes the clock may advance by
MaxMonths == 13        \* months the clock of the usage harness may advance by
MaxUsage == 11         \* largest usageCount the usage harness starts from
MaxRateTicks == 2      \* clock steps of the rate-limit harness

(* Program constants *)

WindowSec == 900           \* windowMs = 15 * 60 * 1000
MaxAttempts == 5           \* maxAttempts
JwtExpireSec == 604800     \* JWT_EXPIRE default '7d'
MonthlyLimit == 10         \* subscription.monthlyLimit of the free plan
MinPasswordLen == 6        \* isLength({ min: 6 })
NoTime == 0 - 1            \* null last_login

(* The calendar: months of 30 days, 12 to the year; only equality of month *)
(* and of year is ever used.                                               *)
MonthSec == 2592000
YearSec == 12 * MonthSec
getMonth(t) == (t \div MonthSec) % 12
getFullYear(t) == 1970 + (t \div YearSec)

----------------------------------------------------------------------------
(* Inputs *)

IPs == {"10.0.0.1", "10.0.0.2"}
RawEmails == {"a@b.com", "A@B.com", "nobody"}
RegisterPasswords == {"secret1", "short"}
LoginPasswords == {"secret1", "wrong12"}
LocalIds == {"L1", "L2", "L3", "L4"}
DbIds == {"D1"}
UnknownIds == {"X9"}

\* express-validator isEmail
isEmail(e) == e # "nobody"

\* express-validator normalizeEmail: lower-cases the address
normalizeEmail(e) == IF e = "A@B.com" THEN "a@b.com" ELSE e

PasswordLen(p) == IF p = "short" THEN 5 ELSE 7

\* bcrypt.hash
bcryptHash(p) == <<"bcrypt", p>>

\* crypto.randomUUID(): an id that no user has or had
randomUUID ==
  CHOOSE i \in LocalIds :
    /\ \A e \in DOMAIN localUsers : localUsers[e]["id"] # i
    /\ \A r \in created : r.id # i

----------------------------------------------------------------------------
(* config/supabase.js: record transforms *)

\* key.replace(/_([a-z])/g, (_, letter) => letter.toUpperCase())
camelKey(k) ==
  CASE k = "password_hash" -> "passwordHash"
    [] k = "first_name" -> "firstName"
    [] k = "last_name" -> "lastName"
    [] k = "is_active" -> "isActive"
    [] k = "last_login" -> "lastLogin"
    [] k = "password_reset_token" -> "passwordResetToken"
    [] k = "password_reset_expires" -> "passwordResetExpires"
    [] k = "user_id" -> "userId"
    [] k = "is_public" -> "isPublic"
    [] k = "is_favorite" -> "isFavorite"
    [] k = "is_template" -> "isTemplate"
    [] k = "parent_content" -> "parentContent"
    [] OTHER -> k

transformRecord(record) ==
  [ck \in {camelKey(k) : k \in DOMAIN record} |->
     record[CHOOSE k \in DOMAIN record : camelKey(k) = ck]]

\* key.replace(/[A-Z]/g, letter => `_${letter.toLowerCase()}`)
snakeKey(k) ==
  CASE k = "passwordHash" -> "password_hash"
    [] k = "firstName" -> "first_name"
    [] k = "lastName" -> "last_name"
    [] k = "isActive" -> "is_active"
    [] k = "lastLogin" -> "last_login"
    [] k = "passwordResetToken" -> "password_reset_token"
    [] k = "passwordResetExpires" -> "password_reset_expires"
    [] k = "userId" -> "user_id"
    [] k = "isPublic" -> "is_public"
    [] k = "isFavorite" -> "is_favorite"
    [] k = "isTemplate" -> "is_template"
    [] k = "parentContent" -> "parent_content"
    [] OTHER -> k

transformForInsert(data) ==
  [sk \in {snakeKey(k) : k \in DOMAIN data} |->
     data[CHOOSE k \in DOMAIN data : snakeKey(k) = sk]]

----------------------------------------------------------------------------
(* Tokens *)

\* jwt.sign({ userId }, JWT_SECRET, { expiresIn })
generateToken(userId) == [userId |-> userId, exp |-> now + JwtExpireSec, sig |-> "ok"]

\* jwt.verify(token, JWT_SECRET): signature and expiry
jwtVerify(token) == token.sig = "ok" /\ now < token.exp

----------------------------------------------------------------------------
(* JS property reads *)

\* obj[k] read in a boolean context: a missing property is undefined, falsy
truthy(obj, k) == k \in DOMAIN obj /\ obj[k] = TRUE

\* Object.assign(target, source)
objectAssign(target, source) ==
  [k \in DOMAIN target \cup DOMAIN source |->
     IF k \in DOMAIN source THEN source[k] ELSE target[k]]

\* results of the static finders: the instance found (none = null), or a throw
Found(obj) == [threw |-> FALSE, found |-> {obj}]
NotFound == [threw |-> FALSE, found |-> {}]
Threw == [threw |-> TRUE, found |-> {}]

freeSubscription ==
  [plan |-> "free", usageCount |-> 0, monthlyLimit |-> MonthlyLimit, resetDate |-> now]

----------------------------------------------------------------------------
(* models/UserLocal.js *)

\* constructor, as called by create with { ...userData, password_hash, id }
newUserLocal(userData) ==
  [id |-> userData.id,
   email |-> userData.email,
   password_hash |-> userData.password_hash,
   first_name |-> userData.firstName,
   last_name |-> userData.lastName,
   subscription |-> freeSubscription,
   is_active |-> TRUE,
   last_login |-> NoTime]

LocalFindByEmail(email) ==
  IF email \in DOMAIN localUsers THEN Found(localUsers[email]) ELSE NotFound

LocalFindById(id) ==
  IF \E e \in DOMAIN localUsers : localUsers[e]["id"] = id
  THEN Found(localUsers[CHOOSE e \in DOMAIN localUsers : localUsers[e]["id"] = id])
  ELSE NotFound

\* UserLocal.users.set(user.email, user)
LocalSet(users, user) ==
  [e \in DOMAIN users \cup {user["email"]} |->
     IF e = user["email"] THEN user ELSE users[e]]

\* comparePassword: bcrypt.compare inside try/catch, false on error
LocalComparePassword(user, candidate) ==
  IF "password_hash" \in DOMAIN user
  THEN IF user["password_hash"] = bcryptHash(candidate) THEN "match" ELSE "mismatch"
  ELSE "mismatch"

----------------------------------------------------------------------------
(* models/UserSupabase.js *)

toLowerCase(e) == IF e = "A@B.com" THEN "a@b.com" ELSE e

\* .from('users').select('*').eq('id', userId).single(); handleSupabaseError(error)
\* single() reports an error when the query matches no row
SbFindById(userId) ==
  IF ~dbOnline THEN Threw
  ELSE IF userId \notin DOMAIN dbUsers THEN Threw
  ELSE Found(transformRecord(dbUsers[userId]))

SbFindByEmail(email) ==
  IF ~dbOnline THEN Threw
  ELSE IF \A i \in DOMAIN dbUsers : dbUsers[i]["email"] # toLowerCase(email) THEN Threw
  ELSE Found(transformRecord(
         dbUsers[CHOOSE i \in DOMAIN dbUsers : dbUsers[i]["email"] = toLowerCase(email)]))

\* comparePassword: bcrypt.compare(candidate, this.password_hash), rethrows;
\* bcrypt rejects a hash that is not a string
SbComparePassword(user, candidate) ==
  IF "password_hash" \in DOMAIN user
  THEN IF user["password_hash"] = bcryptHash(candidate) THEN "match" ELSE "mismatch"
  ELSE "throw"

SaveColumns ==
  {"email", "password_hash", "first_name", "last_name", "is_active", "last_login",
   "subscription"}

\* the update payload of save(): properties that are undefined are not sent
SbUpdateData(user) ==
  transformForInsert([c \in {c \in SaveColumns : c \in DOMAIN user} |-> user[c]])

\* the row after .update(updateData).eq('id', this.id)
SbUpdatedRow(row, user) == objectAssign(row, SbUpdateData(user))

----------------------------------------------------------------------------
(* The model a module is bound to *)

\* middleware/auth.js binds UserSupabase when require('../models/UserSupabase')
\* does not throw, and it does not throw once config/supabase.js has loaded
MiddlewareUserModel == "UserSupabase"

FindById(model, id) ==
  IF model = "UserLocal" THEN LocalFindById(id) ELSE SbFindById(id)

FindByEmail(model, email) ==
  IF model = "UserLocal" THEN LocalFindByEmail(email) ELSE SbFindByEmail(email)

ComparePassword(model, user, candidate) ==
  IF model = "UserLocal" THEN LocalComparePassword(user, candidate)
  ELSE SbComparePassword(user, candidate)

\* UserLocal.toJSON keeping the password hash
LocalToJSONKeepHash(user) ==
  objectAssign([k \in DOMAIN user \ {"password_reset_token"} |-> user[k]],
               [firstName |-> user["first_name"], lastName |-> user["last_name"]])

\* UserLocal.toJSON: { ...userData, firstName, lastName } without password_hash
\* and password_reset_token
LocalToJSON(user) ==
  objectAssign([k \in DOMAIN user \ {"password_hash", "password_reset_token"} |-> user[k]],
               [firstName |-> user["first_name"], lastName |-> user["last_name"]])

\* UserSupabase.toJSON: const { password_hash, passwordResetToken, ...userData } = this
SbToJSON(user) ==
  [k \in DOMAIN user \ {"password_hash", "passwordResetToken"} |-> user[k]]

ToJSON(model, user) ==
  IF model = "UserLocal" THEN LocalToJSON(user) ELSE SbToJSON(user)

----------------------------------------------------------------------------
(* middleware/auth.js *)

\* the Authorization header of a request
NoToken == [userId |-> "X9", exp |-> 0, sig |-> "bad"]
Header(kind, token) == [kind |-> kind, token |-> token]

Deny(status, error) == [next |-> 0, status |-> status, error |-> error, user |-> {}]
Pass(userSet) == [next |-> 1, status |-> 0, error |-> "", user |-> userSet]

\* protect letting a request without a Bearer token through
protectNoHeaderCheck(h) ==
  IF h.kind # "bearer" THEN Pass({})
  ELSE IF ~jwtVerify(h.token) THEN Deny(401, "Token is not valid.")
  ELSE LET r == FindById(MiddlewareUserModel, h.token.userId) IN
       IF r.threw THEN Deny(401, "Token is not valid.")
       ELSE IF r.found = {} THEN Deny(401, "Token is not valid. User not found.")
       ELSE LET user == CHOOSE u \in r.found : TRUE IN
            IF ~truthy(user, "is_active") THEN Deny(401, "Account has been deactivated.")
            ELSE Pass({user})

\* protect without the check of the active flag
protectNoActiveCheck(h) ==
  IF h.kind \in {"missing", "basic"} THEN Deny(401, "Access denied. No token provided.")
  ELSE IF h.kind = "bearer_empty" THEN Deny(401, "Access denied. No token provided.")
  ELSE IF ~jwtVerify(h.token) THEN Deny(401, "Token is not valid.")
  ELSE LET r == FindById(MiddlewareUserModel, h.token.userId) IN
       IF r.threw THEN Deny(401, "Token is not valid.")
       ELSE IF r.found = {} THEN Deny(401, "Token is not valid. User not found.")
       ELSE Pass(r.found)

protect(h) ==
  IF h.kind \in {"missing", "basic"} THEN Deny(401, "Access denied. No token provided.")
  ELSE IF h.kind = "bearer_empty" THEN Deny(401, "Access denied. No token provided.")
  ELSE IF ~jwtVerify(h.token) THEN Deny(401, "Token is not valid.")
  ELSE LET r == FindById(MiddlewareUserModel, h.token.userId) IN
       IF r.threw THEN Deny(401, "Token is not valid.")
       ELSE IF r.found = {} THEN Deny(401, "Token is not valid. User not found.")
       ELSE LET user == CHOOSE u \in r.found : TRUE IN
            IF ~truthy(user, "is_active") THEN Deny(401, "Account has been deactivated.")
            ELSE Pass({user})

\* optionalAuth setting req.user for any user it finds
optionalAuthNoActiveCheck(h) ==
  IF h.kind # "bearer" THEN Pass({})
  ELSE IF ~jwtVerify(h.token) THEN Pass({})
  ELSE LET r == FindById(MiddlewareUserModel, h.token.userId) IN
       IF r.threw \/ r.found = {} THEN Pass({}) ELSE Pass(r.found)

optionalAuth(h) ==
  IF h.kind # "bearer" THEN Pass({})
  ELSE IF ~jwtVerify(h.token) THEN Pass({})
  ELSE LET r == FindById(MiddlewareUserModel, h.token.userId) IN
       IF r.threw \/ r.found = {} THEN Pass({})
       ELSE LET user == CHOOSE u \in r.found : TRUE IN
            IF truthy(user, "is_active") THEN Pass({user}) ELSE Pass({})

\* authRateLimit: the attempts of this ip still inside the window
FilterWindow(ts) == SelectSeq(ts, LAMBDA t : t > now - WindowSec)

\* the limit test with > for >=
RateLimitedOffByOne(ip) == Len(FilterWindow(authAttempts[ip])) > MaxAttempts

RateLimited(ip) == Len(FilterWindow(authAttempts[ip])) >= MaxAttempts

\* authRateLimit pushing the timestamp before the limit test
AttemptsAfterCountRejected(ip) ==
  [authAttempts EXCEPT ![ip] = Append(FilterWindow(@), now)]

\* global.authAttempts after authRateLimit ran for ip
AttemptsAfter(ip) ==
  [authAttempts EXCEPT ![ip] =
     IF RateLimited(ip) THEN FilterWindow(@) ELSE Append(FilterWindow(@), now)]

\* the log of passed requests; entries a full window old can share no window
\* with a later request and are dropped
PassedAfter(ip) ==
  IF RateLimited(ip) THEN passedLog
  ELSE [passedLog EXCEPT
          ![ip] = Append(SelectSeq(@, LAMBDA t : t > now - WindowSec), now)]

----------------------------------------------------------------------------
(* routes/auth.js *)

FirstNames == {"A"}

RegisterBodies == [email : RawEmails, password : RegisterPasswords, firstName : FirstNames]
LoginBodies == [email : RawEmails, password : LoginPasswords]

\* registerValidation: isEmail, password min 6, firstName 1..50 (lastName likewise)
registerValid(body) ==
  isEmail(body.email) /\ PasswordLen(body.password) >= MinPasswordLen /\ body.firstName # ""

\* loginValidation: isEmail, password notEmpty
loginValid(body) == isEmail(body.email)

\* UserSupabase.create: the row inserted (the table defaults the id)
SbNewRow(userData) ==
  [id |-> CHOOSE i \in DbIds \cup UnknownIds : i \notin DOMAIN dbUsers,
   email |-> toLowerCase(userData.email),
   password_hash |-> bcryptHash(userData.password),
   first_name |-> userData.firstName,
   last_name |-> "B",
   is_active |-> TRUE,
   last_login |-> now,
   subscription |-> freeSubscription]

\* outcome of a route handler: the response and the stores afterwards
Outcome(status, error, userSet, tokenSet, users, db) ==
  [status |-> status, error |-> error, user |-> userSet, token |-> tokenSet,
   users |-> users, db |-> db]

Respond(status, error) == Outcome(status, error, {}, {}, localUsers, dbUsers)

\* POST /register behind authRateLimit and registerValidation
RegisterOutcome(ip, body) ==
  IF RateLimited(ip)
  THEN Respond(429, "Too many authentication attempts. Please try again later.")
  ELSE IF ~registerValid(body) THEN Respond(400, "Validation failed")
  ELSE LET email == normalizeEmail(body.email)
           existing == FindByEmail(UserModel, email)
       IN IF existing.threw THEN Respond(500, "Registration failed. Please try again.")
          ELSE IF existing.found # {}
          THEN Respond(400, "User already exists with this email address")
          ELSE IF UserModel = "UserLocal"
          THEN LET user == newUserLocal([id |-> randomUUID, email |-> email,
                                         password_hash |-> bcryptHash(body.password),
                                         firstName |-> body.firstName, lastName |-> "B"])
               IN Outcome(201, "", {user}, {generateToken(user["id"])},
                          LocalSet(localUsers, user), dbUsers)
          ELSE LET row == SbNewRow([email |-> email, password |-> body.password,
                                    firstName |-> body.firstName])
                   user == transformRecord(row)
               IN Outcome(201, "", {user}, {generateToken(row["id"])}, localUsers,
                          [i \in DOMAIN dbUsers \cup {row["id"]} |->
                             IF i = row["id"] THEN row ELSE dbUsers[i]])

\* POST /login behind authRateLimit and loginValidation
LoginOutcome(ip, body) ==
  IF RateLimited(ip)
  THEN Respond(429, "Too many authentication attempts. Please try again later.")
  ELSE IF ~loginValid(body) THEN Respond(400, "Validation failed")
  ELSE LET email == normalizeEmail(body.email)
           r == FindByEmail(UserModel, email)
       IN IF r.threw THEN Respond(500, "Login failed. Please try again.")
          ELSE IF r.found = {} THEN Respond(401, "Invalid email or password")
          ELSE LET user == CHOOSE u \in r.found : TRUE
                   isMatch == ComparePassword(UserModel, user, body.password)
               IN IF isMatch = "throw" THEN Respond(500, "Login failed. Please try again.")
                  ELSE IF isMatch = "mismatch" THEN Respond(401, "Invalid email or password")
                  ELSE IF ~truthy(user, "is_active")
                  THEN Respond(401, "Account has been deactivated. Please contact support.")
                  ELSE LET logged == objectAssign(user, [last_login |-> now]) IN
                       IF UserModel = "UserLocal"
                       THEN Outcome(200, "", {logged}, {generateToken(logged["id"])},
                                    LocalSet(localUsers, logged), dbUsers)
                       ELSE LET row == SbUpdatedRow(dbUsers[logged["id"]], logged)
                                saved == objectAssign(logged, transformRecord(row))
                            IN Outcome(200, "", {saved}, {generateToken(saved["id"])},
                                       localUsers, [dbUsers EXCEPT ![logged["id"]] = row])

\* the tokens clients hold after a response that carries one
HeldAfter(out) ==
  IF out.token = {} THEN held
  ELSE LET t == CHOOSE t \in out.token : TRUE IN
       [i \in DOMAIN held \cup {t.userId} |-> IF i = t.userId THEN t ELSE held[i]]

Request(op, ip, email, password, header) ==
  [op |-> op, ip |-> ip, email |-> email, password |-> password, header |-> header]

NoHeader == Header("missing", NoToken)

\* whether some stored account, in either store, has this id / this email
Stored(id) ==
  \/ \E e \in DOMAIN localUsers : localUsers[e]["id"] = id
  \/ id \in DOMAIN dbUsers

EmailStored(email) ==
  \/ email \in DOMAIN localUsers
  \/ \E i \in DOMAIN dbUsers : dbUsers[i]["email"] = email

\* whether the stored account with this id has its active flag set
Active(id) ==
  \/ \E e \in DOMAIN localUsers : localUsers[e]["id"] = id /\ localUsers[e]["is_active"]
  \/ id \in DOMAIN dbUsers /\ dbUsers[id]["is_active"]

\* what held of a request when it arrived
PreRoute(ip, email, registered) ==
  [held |-> FALSE, verified |-> FALSE, stored |-> EmailStored(email), active |-> FALSE,
   registered |-> registered,
   recent |-> Len(SelectSeq(passedLog[ip], LAMBDA t : t > now - WindowSec))]

\* the record of a handled request
Handled(req, pre, status, error, next, userSet, tokenSet, changed) ==
  [req |-> req, pre |-> pre, status |-> status, error |-> error, next |-> next,
   user |-> userSet, token |-> tokenSet, changed |-> changed, model |-> "", body |-> {}]

\* the `user` of a response body: user.toJSON() of the user the handler answers with
BodyOf(out) == {ToJSON(UserModel, u) : u \in out.user}

\* the user model a register/login handler called: none when authRateLimit or
\* the validation answered before the handler reached UserModel
ModelUsed(out) ==
  IF out.status = 429 \/ out.error = "Validation failed" THEN "" ELSE UserModel

Register(ip, body) ==
  LET out == RegisterOutcome(ip, body)
      email == normalizeEmail(body.email)
  IN /\ authAttempts' = AttemptsAfter(ip)
     /\ passedLog' = PassedAfter(ip)
     /\ localUsers' = out.users
     /\ dbUsers' = out.db
     /\ held' = HeldAfter(out)
     /\ regPw' = IF out.status = 201
                 THEN [e \in DOMAIN regPw \cup {email} |->
                         IF e = email THEN body.password ELSE regPw[e]]
                 ELSE regPw
     /\ last' = [Handled(Request("register", ip, email, body.password, NoHeader),
                         PreRoute(ip, email, email \in DOMAIN regPw), out.status, out.error, 0, out.user,
                         out.token, out.users # localUsers \/ out.db # dbUsers)
                    EXCEPT !.model = ModelUsed(out), !.body = BodyOf(out)]
     /\ created' = created \cup {[id |-> u["id"], email |-> email] :
                                         u \in IF out.status = 201 THEN out.user ELSE {}}
     /\ UNCHANGED <<now, dbOnline, probeDone, UserModel, gatedSeen, reqUser, usageLast,
                    inflight, nonUserVars, extraVars>>

Login(ip, body) ==
  LET out == LoginOutcome(ip, body)
      email == normalizeEmail(body.email)
  IN /\ authAttempts' = AttemptsAfter(ip)
     /\ passedLog' = PassedAfter(ip)
     /\ localUsers' = out.users
     /\ dbUsers' = out.db
     /\ held' = HeldAfter(out)
     /\ last' = [Handled(Request("login", ip, email, body.password, NoHeader),
                        PreRoute(ip, email, email \in DOMAIN regPw /\ regPw[email] = body.password),
                        out.status, out.error, 0, out.user,
                        out.token, out.users # localUsers \/ out.db # dbUsers)
                    EXCEPT !.model = ModelUsed(out), !.body = BodyOf(out)]
     /\ UNCHANGED <<now, dbOnline, probeDone, UserModel, regPw, gatedSeen, reqUser,
                    usageLast, otherVars>>

\* initializeUserModel resuming after `await isOnline`
InitializeUserModel ==
  /\ ~probeDone
  /\ probeDone' = TRUE
  /\ UserModel' = IF dbOnline THEN "UserSupabase" ELSE "UserLocal"
  /\ UNCHANGED <<now, dbOnline, localUsers, dbUsers, authAttempts, held, regPw, last,
                 passedLog, gatedSeen, reqUser, usageLast, otherVars>>

----------------------------------------------------------------------------
(* Usage quota: canMakeRequest, incrementUsage, checkUsageLimit *)

\* canMakeRequest comparing with <= for <
canMakeRequestInclusive(user) ==
  IF "subscription" \notin DOMAIN user
  THEN [allowed |-> TRUE, user |-> user, saved |-> FALSE]
  ELSE LET sub == user["subscription"]
           newMonth == \/ getMonth(now) # getMonth(sub.resetDate)
                       \/ getFullYear(now) # getFullYear(sub.resetDate)
           sub2 == IF newMonth THEN [sub EXCEPT !.usageCount = 0, !.resetDate = now]
                   ELSE sub
       IN [allowed |-> sub2.usageCount <= sub2.monthlyLimit,
           user |-> objectAssign(user, [subscription |-> sub2]),
           saved |-> newMonth]

\* canMakeRequest comparing the month without the year
canMakeRequestMonthOnly(user) ==
  IF "subscription" \notin DOMAIN user
  THEN [allowed |-> TRUE, user |-> user, saved |-> FALSE]
  ELSE LET sub == user["subscription"]
           newMonth == getMonth(now) # getMonth(sub.resetDate)
           sub2 == IF newMonth THEN [sub EXCEPT !.usageCount = 0, !.resetDate = now]
                   ELSE sub
       IN [allowed |-> sub2.usageCount < sub2.monthlyLimit,
           user |-> objectAssign(user, [subscription |-> sub2]),
           saved |-> newMonth]

\* canMakeRequest (the same code in UserLocal and UserSupabase): the answer,
\* the instance afterwards and whether save() was called
canMakeRequest(user) ==
  IF "subscription" \notin DOMAIN user
  THEN [allowed |-> TRUE, user |-> user, saved |-> FALSE]
  ELSE LET sub == user["subscription"]
           newMonth == \/ getMonth(now) # getMonth(sub.resetDate)
                       \/ getFullYear(now) # getFullYear(sub.resetDate)
           sub2 == IF newMonth THEN [sub EXCEPT !.usageCount = 0, !.resetDate = now]
                   ELSE sub
       IN [allowed |-> sub2.usageCount < sub2.monthlyLimit,
           user |-> objectAssign(user, [subscription |-> sub2]),
           saved |-> newMonth]

\* incrementUsage, up to its call of save()
incrementUsage(user) ==
  LET sub == IF "subscription" \in DOMAIN user THEN user["subscription"]
             ELSE freeSubscription
  IN objectAssign(user, [subscription |-> [sub EXCEPT !.usageCount = @ + 1]])

\* checkUsageLimit on req.user (none = unauthenticated)
checkUsageLimit(userSet) ==
  IF userSet = {} THEN [res |-> Pass({}), upgradeRequired |-> FALSE, saved |-> FALSE]
  ELSE LET c == canMakeRequest(CHOOSE u \in userSet : TRUE) IN
       IF ~c.allowed
       THEN [res |-> [Deny(429, "Usage limit exceeded. Please upgrade your plan or try again next month.")
                        EXCEPT !.user = {c.user}],
             upgradeRequired |-> TRUE,
             saved |-> c.saved]
       ELSE [res |-> Pass({c.user}), upgradeRequired |-> FALSE, saved |-> c.saved]

\* the stores after instance.save() of an instance of the given class
UsersAfterSave(class, user) ==
  IF class = "UserLocal" THEN LocalSet(localUsers, user) ELSE localUsers

DbAfterSave(class, user) ==
  IF class = "UserSupabase" /\ dbOnline /\ user["id"] \in DOMAIN dbUsers
  THEN [dbUsers EXCEPT ![user["id"]] = SbUpdatedRow(@, user)]
  ELSE dbUsers

----------------------------------------------------------------------------
(* Routes behind protect *)

TokenInputs ==
  {held[i] : i \in DOMAIN held}
  \cup {[userId |-> i, exp |-> now + JwtExpireSec, sig |-> "ok"] : i \in DbIds \cup UnknownIds}
  \cup {[userId |-> i, exp |-> now, sig |-> "ok"] : i \in DbIds}
  \cup {[userId |-> i, exp |-> now + JwtExpireSec, sig |-> "bad"] : i \in DbIds}

HeaderInputs ==
  {Header(k, NoToken) : k \in {"missing", "basic", "bearer_empty"}}
  \cup {Header("bearer", t) : t \in TokenInputs}

\* whether the header carries a token that register/login returned
IsHeld(h) == h.kind = "bearer" /\ \E i \in DOMAIN held : held[i] = h.token

PreAuth(h) ==
  [held |-> IsHeld(h),
   verified |-> h.kind = "bearer" /\ jwtVerify(h.token),
   stored |-> h.kind = "bearer" /\ Stored(h.token.userId),
   active |-> h.kind = "bearer" /\ Active(h.token.userId),
   registered |-> FALSE,
   recent |-> 0]

\* GET /me: protect, then the handler
GetMe(h) ==
  LET p == protect(h)
      r == FindById(UserModel, (CHOOSE u \in p.user : TRUE)["id"])
      res == IF p.next = 0 THEN p
             ELSE IF r.threw THEN [p EXCEPT !.status = 500, !.error = "Failed to retrieve profile"]
             ELSE IF r.found = {} THEN [p EXCEPT !.status = 404, !.error = "User not found"]
             ELSE [p EXCEPT !.status = 200]
  IN /\ last' = [Handled(Request("me", "", "", "", h), PreAuth(h), res.status, res.error,
                         res.next, res.user, {}, FALSE)
                    EXCEPT !.body = IF res.status = 200
                                    THEN {ToJSON(UserModel, u) : u \in r.found} ELSE {}]
     /\ UNCHANGED <<now, dbOnline, probeDone, UserModel, localUsers, dbUsers, authAttempts,
                    held, regPw, passedLog, gatedSeen, reqUser, usageLast, otherVars>>

\* a request through optionalAuth
OptionalAuthCall(h) ==
  LET p == optionalAuth(h)
  IN /\ last' = Handled(Request("optional", "", "", "", h), PreAuth(h), p.status, p.error,
                        p.next, p.user, {}, FALSE)
     /\ UNCHANGED <<now, dbOnline, probeDone, UserModel, localUsers, dbUsers, authAttempts,
                    held, regPw, passedLog, gatedSeen, reqUser, usageLast, otherVars>>

\* POST /api/resume/generate: protect, checkUsageLimit, validation, handler.
\* bodyValid: the body passes generateResumeValidation; aiOk: the generation succeeds.
GenerateResume(h, bodyValid, aiOk) ==
  LET p == protect(h)
      c == checkUsageLimit(p.user)
      res == IF p.next = 0 THEN p
             ELSE IF c.res.next = 0 THEN c.res
             ELSE IF ~bodyValid THEN [c.res EXCEPT !.status = 400, !.error = "Validation failed"]
             ELSE IF ~aiOk
             THEN [c.res EXCEPT !.status = 500,
                                !.error = "Failed to generate resume. Please try again."]
             ELSE [c.res EXCEPT !.status = 200]
      uid == h.token.userId
      seen == IF uid \in DOMAIN gatedSeen THEN gatedSeen[uid] ELSE [n |-> 0, ok |-> 0]
      seen2 == [n |-> seen.n + 1,
                ok |-> seen.ok + (IF res.status = 200 THEN 1 ELSE 0)]
  IN /\ IsHeld(h)
     /\ seen.n <= MonthlyLimit
     /\ gatedSeen' = [i \in DOMAIN gatedSeen \cup {uid} |->
                        IF i = uid THEN seen2 ELSE gatedSeen[i]]
     /\ dbUsers' = IF p.next = 1 /\ c.saved
                   THEN DbAfterSave(MiddlewareUserModel, CHOOSE u \in c.res.user : TRUE)
                   ELSE dbUsers
     /\ localUsers' = IF p.next = 1 /\ c.saved
                      THEN UsersAfterSave(MiddlewareUserModel, CHOOSE u \in c.res.user : TRUE)
                      ELSE localUsers
     /\ last' = Handled(Request("generate", "", "", "", h), PreAuth(h), res.status, res.error,
                        res.next, res.user, {}, FALSE)
     /\ UNCHANGED <<now, dbOnline, probeDone, UserModel, authAttempts, held, regPw,
                    passedLog, reqUser, usageLast, otherVars>>

----------------------------------------------------------------------------
(* The hosted database, changed from outside the server *)

\* test-user-creation.js: a row inserted directly into the users table
DbInsertUser(id, email) ==
  /\ dbOnline
  /\ id \notin DOMAIN dbUsers
  /\ \A i \in DOMAIN dbUsers : dbUsers[i]["email"] # email
  /\ dbUsers' = [i \in DOMAIN dbUsers \cup {id} |->
                   IF i = id
                   THEN [id |-> id, email |-> email,
                         password_hash |-> bcryptHash("secret1"),
                         first_name |-> "Test", last_name |-> "User",
                         is_active |-> TRUE, last_login |-> NoTime,
                         subscription |-> freeSubscription]
                   ELSE dbUsers[i]]
  /\ UNCHANGED <<now, dbOnline, probeDone, UserModel, localUsers, authAttempts, held,
                 regPw, last, passedLog, gatedSeen, reqUser, usageLast, otherVars>>

\* the is_active column of a row set by an administrator
DbSetActive(id, active) ==
  /\ dbOnline
  /\ id \in DOMAIN dbUsers
  /\ dbUsers[id]["is_active"] # active
  /\ dbUsers' = [dbUsers EXCEPT ![id] = objectAssign(@, [is_active |-> active])]
  /\ UNCHANGED <<now, dbOnline, probeDone, UserModel, localUsers, authAttempts, held,
                 regPw, last, passedLog, gatedSeen, reqUser, usageLast, otherVars>>

----------------------------------------------------------------------------
(* The clock *)

\* the clock advances by a token lifetime (which also empties the rate window)
Tick ==
  /\ now \div JwtExpireSec < MaxBigTicks
  /\ now' = now + JwtExpireSec
  /\ UNCHANGED <<dbOnline, probeDone, UserModel, localUsers, dbUsers, authAttempts, held,
                 regPw, last, passedLog, gatedSeen, reqUser, usageLast, otherVars>>

----------------------------------------------------------------------------
(* The server: auth routes, middleware and both user stores *)

EmptyMap == [x \in {} |-> x]
NoRequest == Handled(Request("none", "", "", "", NoHeader), [PreAuth(NoHeader) EXCEPT !.stored = FALSE, !.active = FALSE], 0, "", 0, {}, {}, FALSE)
NoUsageCall == [op |-> "none"]

SpecIPs == {"10.0.0.1"}

\* no reset token generated
InitExtra ==
  /\ resetSent = {}
  /\ usageReqs = <<>>
  /\ cardLast = [op |-> "none"]

\* nothing in flight or created, an empty content table, no call made
InitOther ==
  /\ inflight = <<>>
  /\ created = {}
  /\ contents = EmptyMap
  /\ histLast = [op |-> "none"]
  /\ atsEarlier = [op |-> "none"]
  /\ atsLast = [op |-> "none"]
  /\ InitExtra

InitAuth ==
  /\ now = 0
  /\ dbOnline \in BOOLEAN
  /\ probeDone = FALSE
  /\ UserModel = "UserLocal"
  /\ localUsers = EmptyMap
  /\ dbUsers = EmptyMap
  /\ authAttempts = [ip \in IPs |-> <<>>]
  /\ held = EmptyMap
  /\ regPw = EmptyMap
  /\ last = NoRequest
  /\ passedLog = [ip \in IPs |-> <<>>]
  /\ gatedSeen = EmptyMap
  /\ reqUser = EmptyMap
  /\ usageLast = NoUsageCall

Init == InitAuth /\ InitOther

Next ==
  \/ InitializeUserModel
  \/ \E ip \in SpecIPs, body \in RegisterBodies : Register(ip, body)
  \/ \E ip \in SpecIPs, body \in LoginBodies : Login(ip, body)
  \/ \E h \in HeaderInputs : GetMe(h)
  \/ \E h \in HeaderInputs : OptionalAuthCall(h)
  \/ \E id \in DbIds : DbInsertUser(id, "a@b.com")
  \/ \E id \in DbIds, active \in BOOLEAN : DbSetActive(id, active)
  \/ Tick

Spec == Init /\ [][Next]_vars

----------------------------------------------------------------------------
(* The generation quota end to end: register, then gated requests made with *)
(* the token register returned                                              *)

HeldHeaders == {Header("bearer", held[i]) : i \in DOMAIN held}

NextQuota ==
  \/ InitializeUserModel
  \/ \E ip \in IPs, body \in RegisterBodies : Register(ip, body)
  \/ \E h \in HeldHeaders, bodyValid \in BOOLEAN, aiOk \in BOOLEAN :
       GenerateResume(h, bodyValid, aiOk)

SpecQuota == Init /\ [][NextQuota]_vars

----------------------------------------------------------------------------
(* checkUsageLimit and the instance methods it relies on, called on a        *)
(* req.user of either class                                                   *)

UsageCall(op, pre, post, next, status, upgradeRequired) ==
  [op |-> op, pre |-> pre, post |-> post, at |-> now, next |-> next, status |-> status,
   upgradeRequired |-> upgradeRequired]

StoredRow(usageCount) ==
  [id |-> "D1", email |-> "a@b.com", password_hash |-> bcryptHash("secret1"),
   first_name |-> "Test", last_name |-> "User", is_active |-> TRUE,
   last_login |-> NoTime,
   subscription |-> [freeSubscription EXCEPT !.usageCount = usageCount]]

InitUsage ==
  /\ now = 0
  /\ dbOnline \in BOOLEAN
  /\ probeDone = TRUE
  /\ UserModel = "UserLocal"
  /\ \E class \in {"UserLocal", "UserSupabase"}, n \in 0..MaxUsage :
       /\ reqUser = [class |-> class,
                     user |-> IF class = "UserLocal"
                              THEN objectAssign(StoredRow(n), [id |-> "L1"])
                              ELSE transformRecord(StoredRow(n))]
       /\ localUsers = IF class = "UserLocal"
                       THEN LocalSet(EmptyMap, objectAssign(StoredRow(n), [id |-> "L1"]))
                       ELSE EmptyMap
       /\ dbUsers = IF class = "UserSupabase" THEN [i \in {"D1"} |-> StoredRow(n)]
                    ELSE EmptyMap
  /\ authAttempts = [ip \in IPs |-> <<>>]
  /\ held = EmptyMap
  /\ regPw = EmptyMap
  /\ last = NoRequest
  /\ passedLog = [ip \in IPs |-> <<>>]
  /\ gatedSeen = EmptyMap
  /\ usageLast = NoUsageCall
  /\ InitOther

\* the instance after save(): UserSupabase assigns the returned row to itself
AfterSave(class, user) ==
  IF class = "UserSupabase" /\ dbOnline /\ user["id"] \in DOMAIN dbUsers
  THEN objectAssign(user, transformRecord(SbUpdatedRow(dbUsers[user["id"]], user)))
  ELSE user

CheckUsageLimitCall ==
  LET c == checkUsageLimit({reqUser.user})
      user == CHOOSE u \in c.res.user : TRUE
  IN /\ reqUser' = [reqUser EXCEPT !.user = IF c.saved THEN AfterSave(reqUser.class, user)
                                             ELSE user]
     /\ localUsers' = IF reqUser.class = "UserLocal" THEN LocalSet(localUsers, user)
                      ELSE localUsers
     /\ dbUsers' = IF c.saved THEN DbAfterSave(reqUser.class, user) ELSE dbUsers
     /\ usageLast' = UsageCall("check", reqUser.user["subscription"], user["subscription"],
                               c.res.next, c.res.status, c.upgradeRequired)
     /\ UNCHANGED <<now, dbOnline, probeDone, UserModel, authAttempts, held, regPw, last,
                    passedLog, gatedSeen, otherVars>>

IncrementUsageCall ==
  LET user == incrementUsage(reqUser.user)
  IN /\ reqUser.user["subscription"].usageCount <= MaxUsage
     /\ reqUser' = [reqUser EXCEPT !.user = AfterSave(reqUser.class, user)]
     /\ localUsers' = UsersAfterSave(reqUser.class, user)
     /\ dbUsers' = DbAfterSave(reqUser.class, user)
     /\ usageLast' = UsageCall("increment", reqUser.user["subscription"],
                               user["subscription"], 0, 0, FALSE)
     /\ UNCHANGED <<now, dbOnline, probeDone, UserModel, authAttempts, held, regPw, last,
                    passedLog, gatedSeen, otherVars>>

\* the clock advances by a month
MonthTick ==
  /\ now \div MonthSec < MaxMonths
  /\ now' = now + MonthSec
  /\ UNCHANGED <<dbOnline, probeDone, UserModel, localUsers, dbUsers, authAttempts, held,
                 regPw, last, passedLog, gatedSeen, reqUser, usageLast, otherVars>>

NextUsage == CheckUsageLimitCall \/ IncrementUsageCall \/ MonthTick

SpecUsage == InitUsage /\ [][NextUsage]_vars

----------------------------------------------------------------------------
(* authRateLimit in front of register and login, two client addresses *)

RateTicks == (now \div (WindowSec - 1)) + (now % (WindowSec - 1))

\* the clock advances by a second, or by a second less than the window
RateTick ==
  /\ RateTicks < MaxRateTicks
  /\ now' \in {now + 1, now + WindowSec - 1}
  /\ UNCHANGED <<dbOnline, probeDone, UserModel, localUsers, dbUsers, authAttempts, held,
                 regPw, last, passedLog, gatedSeen, reqUser, usageLast, otherVars>>

RateBody == [email |-> "a@b.com", password |-> "short", firstName |-> "A"]

NextRate ==
  \/ \E ip \in IPs : Register(ip, RateBody)
  \/ \E ip \in IPs : Login(ip, [email |-> "a@b.com", password |-> "secret1"])
  \/ RateTick

SpecRate == Init /\ [][NextRate]_vars

----------------------------------------------------------------------------
(* Properties of the server *)

BearerToken == last.req.header.token

\* C1: a token returned by register or login, unexpired and of an active
\* account, makes protect set req.user to that user and call next.
C1_IssuedTokenAccepted ==
  (last.req.op = "me" /\ last.pre.held /\ last.pre.verified /\ last.pre.active)
    => /\ last.next = 1
       /\ last.user # {}
       /\ \A u \in last.user : u["id"] = BearerToken.userId

\* C2: protect answers 401 and does not call next when the header is missing,
\* is not a Bearer header, carries an empty token, a token that fails
\* verification, or a token whose user id matches no stored user.
C2_BadTokenRejected ==
  (last.req.op = "me"
     /\ (last.req.header.kind # "bearer" \/ ~last.pre.verified \/ ~last.pre.stored))
    => (last.next = 0 /\ last.status = 401)

C2_Witness ==
  /\ last.req.op = "me"
  /\ last.pre.held
  /\ ~last.pre.verified
  /\ last.status = 401
  /\ last.error = "Token is not valid."

\* C3: once register returned 201 for an email, a later register with that
\* email that passes the rate limiter and validation returns 400 'User already
\* exists with this email address' and leaves the user stores unchanged.
C3_DuplicateRejected ==
  (last.req.op = "register" /\ last.pre.registered /\ last.status # 429
     /\ last.error # "Validation failed")
    => /\ last.status = 400
       /\ last.error = "User already exists with this email address"
       /\ ~last.changed

\* C4: a valid register for an email in no user store returns 201 with a token
\* and a user carrying the (normalised) submitted email, and a later login with
\* the registered email and password returns 200 with a token.
C4_RegisterThenLogin ==
  /\ (last.req.op = "register" /\ ~last.pre.stored /\ last.status # 429
        /\ last.error # "Validation failed")
       => /\ last.status = 201
          /\ last.token # {}
          /\ \A u \in last.user : u["email"] = last.req.email
  /\ (last.req.op = "login" /\ last.pre.registered /\ last.status # 429)
       => (last.status = 200 /\ last.token # {})

\* C9: protect never calls next for a stored account whose active flag is
\* false; with a token that verifies the answer is 401 'Account has been
\* deactivated.'
C9_DeactivatedRejected ==
  (last.req.op = "me" /\ last.pre.stored /\ ~last.pre.active)
    => /\ last.next = 0
       /\ last.status = 401
       /\ last.pre.verified => last.error = "Account has been deactivated."

C9_Witness ==
  /\ last.req.op = "me"
  /\ last.pre.stored
  /\ ~last.pre.active
  /\ last.pre.verified
  /\ last.error = "Account has been deactivated."

\* C10: optionalAuth calls next exactly once and sends no response, and sets
\* req.user only for a token that verifies and names a stored, active account.
C10_OptionalAuthProceeds ==
  last.req.op = "optional"
    => /\ last.next = 1
       /\ last.status = 0
       /\ last.user # {} => (last.pre.verified /\ last.pre.stored /\ last.pre.active)

C10_Witness ==
  /\ last.req.op = "optional"
  /\ last.pre.verified
  /\ last.pre.stored
  /\ ~last.pre.active
  /\ last.next = 1
  /\ last.user = {}

\* C5: a free-tier user gets at most 10 successful responses from the gated
\* generation endpoint in a month, every success raises usageCount by one, and
\* the 11th request of the month is answered 429.
C5_QuotaEnforced ==
  /\ \A i \in DOMAIN gatedSeen : gatedSeen[i].ok <= MonthlyLimit
  /\ (last.req.op = "generate" /\ last.status = 200)
       => \A u \in last.user :
            u["subscription"].usageCount = gatedSeen[BearerToken.userId].ok
  /\ (last.req.op = "generate" /\ gatedSeen[BearerToken.userId].n > MonthlyLimit)
       => last.status = 429

----------------------------------------------------------------------------
(* Properties of checkUsageLimit *)

SameMonth(t1, t2) == getMonth(t1) = getMonth(t2) /\ getFullYear(t1) = getFullYear(t2)

\* C6: with usageCount >= monthlyLimit and resetDate in the current month and
\* year, checkUsageLimit answers 429 with upgradeRequired and does not call
\* next; with usageCount < monthlyLimit it calls next and sends no response.
C6_UsageGate ==
  usageLast.op = "check"
    => /\ (usageLast.pre.usageCount >= usageLast.pre.monthlyLimit
             /\ SameMonth(usageLast.pre.resetDate, usageLast.at))
            => (usageLast.status = 429 /\ usageLast.upgradeRequired /\ usageLast.next = 0)
       /\ usageLast.pre.usageCount < usageLast.pre.monthlyLimit
            => (usageLast.next = 1 /\ usageLast.status = 0)

C6_Witness ==
  /\ usageLast.op = "check"
  /\ usageLast.pre.usageCount >= usageLast.pre.monthlyLimit
  /\ SameMonth(usageLast.pre.resetDate, usageLast.at)
  /\ usageLast.status = 429

\* C7: evaluated in a month or year other than that of resetDate, canMakeRequest
\* sets usageCount to 0 and resetDate to the current time before it compares,
\* so a user blocked in the earlier month is allowed; evaluated in the month of
\* resetDate it leaves usageCount and resetDate unchanged.
C7_MonthlyReset ==
  usageLast.op = "check"
    => /\ ~SameMonth(usageLast.pre.resetDate, usageLast.at)
            => /\ usageLast.post.usageCount = 0
               /\ usageLast.post.resetDate = usageLast.at
               /\ usageLast.next = 1
       /\ SameMonth(usageLast.pre.resetDate, usageLast.at)
            => usageLast.post = usageLast.pre

\* blocked a year earlier, in the month of the same number
C7_Witness ==
  /\ usageLast.op = "check"
  /\ usageLast.pre.usageCount >= usageLast.pre.monthlyLimit
  /\ getMonth(usageLast.pre.resetDate) = getMonth(usageLast.at)
  /\ getFullYear(usageLast.pre.resetDate) # getFullYear(usageLast.at)
  /\ usageLast.post.usageCount = 0
  /\ usageLast.next = 1

----------------------------------------------------------------------------
(* Properties of authRateLimit *)

\* requests of ip that passed within the window starting at t
PassedInWindow(ip, t) ==
  Len(SelectSeq(passedLog[ip], LAMBDA u : t <= u /\ u < t + WindowSec))

\* C8: for every ip and every 15-minute interval at most 5 register and login
\* requests pass authRateLimit; a further request inside the interval is
\* answered 429 and its handler does not run.
C8_RateLimit ==
  /\ \A ip \in IPs : \A j \in 1..Len(passedLog[ip]) :
       PassedInWindow(ip, passedLog[ip][j]) <= MaxAttempts
  /\ (last.req.op \in {"register", "login"} /\ last.pre.recent >= MaxAttempts)
       => (last.status = 429 /\ ~last.changed /\ last.token = {})

C8_Witness ==
  /\ last.req.op \in {"register", "login"}
  /\ last.pre.recent = MaxAttempts
  /\ last.status = 429
  /\ \E ip \in IPs : ip # last.req.ip /\ Len(passedLog[ip]) > 0

----------------------------------------------------------------------------
(* Backend selection *)

\* C11: the user model that the auth routes call is the same for every pair of
\* requests of one process: a register/login handler never calls UserSupabase
\* after an earlier one called UserLocal, nor the reverse.
C11_BackendNeverChanges ==
  [][(last.model # "" /\ last'.model # "") => last'.model = last.model]_vars

\* C18: once the connectivity probe has reported, online or offline, the model
\* that the auth routes call is the model that protect and optionalAuth call.
C18_SameBackendEverywhere ==
  probeDone => UserModel = MiddlewareUserModel

----------------------------------------------------------------------------
(* Hosted rows read back *)

\* the user columns that UserSupabase.create and UserSupabase.save write
WrittenColumns ==
  {"is_active", "password_hash", "first_name", "last_name", "last_login",
   "password_reset_token", "password_reset_expires"}

\* C19: every written column of a stored hosted row is readable, under the
\* column's own name and with the stored value, on the instance that findById
\* returns for the row.
C19_ColumnsReadable ==
  \A id \in DOMAIN dbUsers :
    \A u \in SbFindById(id).found :
      \A c \in WrittenColumns \cap DOMAIN dbUsers[id] :
        c \in DOMAIN u /\ u[c] = dbUsers[id][c]

----------------------------------------------------------------------------
(* Profile update and password-reset request *)

AllowedUpdates ==
  {"firstName", "lastName", "bio", "location", "website", "linkedin", "github",
   "preferences"}

UpdateBodies ==
  {[firstName |-> "Z"], [firstName |-> "Z", password_hash |-> bcryptHash("wrong12")]}

\* PUT /me: protect, then Object.assign(user, filteredUpdates), user.save() and
\* res.json({ data: { user } }), which serialises the user through toJSON
PutMeHandler(model, id, updates) ==
  LET filteredUpdates == [k \in DOMAIN updates \cap AllowedUpdates |-> updates[k]]
      r == FindById(model, id)
  IN IF r.threw THEN Respond(500, "Failed to update profile")
     ELSE IF r.found = {} THEN Respond(200, "")
     ELSE LET user == objectAssign(CHOOSE u \in r.found : TRUE, filteredUpdates) IN
          IF model = "UserLocal"
          THEN Outcome(200, "", {user}, {}, LocalSet(localUsers, user), dbUsers)
          ELSE LET row == SbUpdatedRow(dbUsers[user["id"]], user)
                   saved == objectAssign(user, transformRecord(row))
               IN Outcome(200, "", {saved}, {}, localUsers,
                          [dbUsers EXCEPT ![user["id"]] = row])

PutMeOutcome(h, updates) ==
  LET p == protect(h)
  IN IF p.next = 0 THEN Outcome(p.status, p.error, {}, {}, localUsers, dbUsers)
     ELSE PutMeHandler(UserModel, (CHOOSE u \in p.user : TRUE)["id"], updates)

PutMe(h, updates) ==
  LET out == PutMeOutcome(h, updates)
  IN /\ localUsers' = out.users
     /\ dbUsers' = out.db
     /\ last' = [Handled(Request("putme", "", "", "", h), PreAuth(h), out.status, out.error,
                         protect(h).next, out.user, {}, out.users # localUsers \/ out.db # dbUsers)
                    EXCEPT !.body = BodyOf(out)]
     /\ UNCHANGED <<now, dbOnline, probeDone, UserModel, authAttempts, held, regPw,
                    passedLog, gatedSeen, reqUser, usageLast, otherVars>>

ResetExpireSec == 600
sha256(t) == <<"sha256", t>>

\* POST /forgot-password: createPasswordResetToken() and save() on the user found
ForgotPasswordOutcome(rawEmail, resetToken) ==
  IF ~isEmail(rawEmail) THEN Respond(400, "Validation failed")
  ELSE LET r == FindByEmail(UserModel, normalizeEmail(rawEmail)) IN
       IF r.threw THEN Respond(500, "Failed to process password reset request")
       ELSE IF r.found = {} THEN Respond(200, "")
       ELSE LET u == CHOOSE u \in r.found : TRUE IN
            IF UserModel = "UserLocal"
            THEN Outcome(200, "", {}, {},
                         LocalSet(localUsers,
                                  objectAssign(u, [password_reset_token |-> sha256(resetToken),
                                                   password_reset_expires |-> now + ResetExpireSec])),
                         dbUsers)
            ELSE LET user == objectAssign(u, [passwordResetToken |-> sha256(resetToken),
                                              passwordResetExpires |-> now + ResetExpireSec])
                 IN Outcome(200, "", {}, {}, localUsers,
                            [dbUsers EXCEPT ![user["id"]] = SbUpdatedRow(@, user)])

ForgotPassword(rawEmail, resetToken) ==
  LET out == ForgotPasswordOutcome(rawEmail, resetToken)
  IN /\ localUsers' = out.users
     /\ dbUsers' = out.db
     /\ last' = Handled(Request("forgot", "", normalizeEmail(rawEmail), "", NoHeader),
                        [PreAuth(NoHeader) EXCEPT !.stored = EmailStored(normalizeEmail(rawEmail))],
                        out.status, out.error, 0, {}, {},
                        out.users # localUsers \/ out.db # dbUsers)
     /\ resetSent' = IF out.users # localUsers \/ out.db # dbUsers
                     THEN resetSent \cup {[email |-> normalizeEmail(rawEmail),
                                           token |-> resetToken,
                                           expires |-> now + ResetExpireSec]}
                     ELSE resetSent
     /\ UNCHANGED <<now, dbOnline, probeDone, UserModel, authAttempts, held, regPw,
                    passedLog, gatedSeen, reqUser, usageLast, concVars, nonUserVars,
                    usageReqs, cardLast>>

NextProfile ==
  \/ InitializeUserModel
  \/ \E ip \in SpecIPs, body \in RegisterBodies : Register(ip, body)
  \/ \E ip \in SpecIPs, body \in LoginBodies : Login(ip, body)
  \/ \E h \in HeaderInputs : GetMe(h)
  \/ \E h \in HeaderInputs, updates \in UpdateBodies : PutMe(h, updates)
  \/ \E e \in RawEmails, t \in {"tok1"} : ForgotPassword(e, t)
  \/ \E id \in DbIds : DbInsertUser(id, "a@b.com")

SpecProfile == Init /\ [][NextProfile]_vars

\* the property names under which an instance or a row holds the password hash
\* or the hash of the reset token
SecretKeys ==
  {"password_hash", "passwordHash", "password_reset_token", "passwordResetToken"}

----------------------------------------------------------------------------
(* Register requests in flight on the in-memory backend: the handler yields at *)
(* `await bcrypt.hash` inside UserLocal.create, after findByEmail returned null *)
(* and before users.set                                                         *)

MaxInflight == 2

\* a register request that passes authRateLimit, the validation and the
\* findByEmail check, and enters UserLocal.create
RegisterBegin(ip, body) ==
  /\ UserModel = "UserLocal"
  /\ RegisterOutcome(ip, body).status = 201
  /\ Len(inflight) < MaxInflight
  /\ authAttempts' = AttemptsAfter(ip)
  /\ passedLog' = PassedAfter(ip)
  /\ inflight' = Append(inflight, [ip |-> ip, body |-> body,
                                   stored |-> EmailStored(normalizeEmail(body.email)),
                                   registered |-> normalizeEmail(body.email) \in DOMAIN regPw])
  /\ UNCHANGED <<now, dbOnline, probeDone, UserModel, localUsers, dbUsers, held, regPw,
                 last, gatedSeen, reqUser, usageLast, created, nonUserVars, extraVars>>

\* bcrypt.hash resolves: new UserLocal, users.set(user.email, user), then the
\* handler signs the token and answers 201
RegisterFinish(k) ==
  LET r == inflight[k]
      email == normalizeEmail(r.body.email)
      user == newUserLocal([id |-> randomUUID, email |-> email,
                            password_hash |-> bcryptHash(r.body.password),
                            firstName |-> r.body.firstName, lastName |-> "B"])
      out == Outcome(201, "", {user}, {generateToken(user["id"])},
                     LocalSet(localUsers, user), dbUsers)
  IN /\ localUsers' = out.users
     /\ held' = HeldAfter(out)
     /\ regPw' = [e \in DOMAIN regPw \cup {email} |->
                    IF e = email THEN r.body.password ELSE regPw[e]]
     /\ created' = created \cup {[id |-> user["id"], email |-> email]}
     /\ inflight' = SubSeq(inflight, 1, k - 1) \o SubSeq(inflight, k + 1, Len(inflight))
     /\ last' = [Handled(Request("register", r.ip, email, r.body.password, NoHeader),
                         [PreRoute(r.ip, email, r.registered) EXCEPT !.stored = r.stored],
                         201, "", 0, out.user, out.token, TRUE)
                    EXCEPT !.model = "UserLocal", !.body = BodyOf(out)]
     /\ UNCHANGED <<now, dbOnline, probeDone, UserModel, dbUsers, authAttempts, passedLog,
                    gatedSeen, reqUser, usageLast, nonUserVars, extraVars>>

\* a register request answered before it reaches UserLocal.create
RegisterReject(ip, body) ==
  /\ RegisterOutcome(ip, body).status # 201
  /\ Register(ip, body)

\* the in-memory backend: the probe reports that the hosted one is unreachable
InitConc == Init /\ dbOnline = FALSE

NextConc ==
  \/ InitializeUserModel
  \/ \E ip \in SpecIPs, body \in RegisterBodies : RegisterBegin(ip, body)
  \/ \E k \in 1..Len(inflight) : RegisterFinish(k)
  \/ \E ip \in SpecIPs, body \in RegisterBodies : RegisterReject(ip, body)
  \/ \E ip \in SpecIPs, body \in LoginBodies : Login(ip, body)
  \/ \E h \in HeldHeaders, updates \in UpdateBodies : PutMe(h, updates)
  \/ \E h \in HeldHeaders, bodyValid \in BOOLEAN, aiOk \in BOOLEAN :
       GenerateResume(h, bodyValid, aiOk)

SpecConc == InitConc /\ [][NextConc]_vars

\* C12: every user for whom register answered 201 is found by findById with the
\* id of the issued token and by findByEmail with the registered email, and of
\* the register requests for one email at most one was answered 201.
C12_RegisteredStayRetrievable ==
  \A r \in created :
    /\ \E u \in FindById(UserModel, r.id).found : u["id"] = r.id
    /\ \E u \in FindByEmail(UserModel, r.email).found : u["email"] = r.email
    /\ \A r2 \in created : r2.email = r.email => r2.id = r.id

----------------------------------------------------------------------------
(* models/ContentSupabase.js over the hosted table "content" *)

\* the columns of table content
ContentColumns ==
  {"id", "user_id", "type", "title", "content", "metadata", "tags", "is_public",
   "is_favorite", "usage", "expires_at", "last_accessed", "version", "parent_content",
   "related_content", "settings", "created_at", "updated_at"}

ContentIds == {"c1", "c2"}
NewContentIds == {"c3", "c4"}
ContentUsers == {"U", "V"}
NoParent == "none"

\* ContentSupabase.findById: .eq('id', contentId).single() reports an error when
\* no row matches, and handleSupabaseError throws it
ContentFindById(table, contentId) ==
  IF dbOnline /\ contentId \in DOMAIN table
  THEN Found(transformRecord(table[contentId]))
  ELSE Threw

\* the table after .update(data).eq('id', id): a key that is no column is an
\* error, as is a new id that another row has; no matching row changes nothing
DbUpdate(table, id, data) ==
  IF ~dbOnline \/ ~(DOMAIN data \subseteq ContentColumns) THEN [threw |-> TRUE, table |-> table]
  ELSE IF id \notin DOMAIN table THEN [threw |-> FALSE, table |-> table]
  ELSE LET row == objectAssign(table[id], data) IN
       IF row["id"] # id /\ row["id"] \in DOMAIN table THEN [threw |-> TRUE, table |-> table]
       ELSE [threw |-> FALSE,
             table |-> [i \in (DOMAIN table \ {id}) \cup {row["id"]} |->
                          IF i = row["id"] THEN row ELSE table[i]]]

\* save(): update(transformForInsert(this)).eq('id', this.id).select().single()
ContentSave(table, content) ==
  LET u == DbUpdate(table, content["id"], transformForInsert(content)) IN
  IF u.threw \/ content["id"] \notin DOMAIN table THEN [threw |-> TRUE, table |-> u.table]
  ELSE u

\* instance toggleFavorite(): update({ is_favorite }).eq('id', this.id)
ContentToggleFavorite(table, content) ==
  DbUpdate(table, content["id"], [is_favorite |-> ~truthy(content, "isFavorite")])

\* deleteById: delete().eq('id', contentId)
ContentDeleteById(table, contentId) ==
  IF ~dbOnline THEN [threw |-> TRUE, table |-> table]
  ELSE [threw |-> FALSE, table |-> [i \in DOMAIN table \ {contentId} |-> table[i]]]

\* create: insert(transformForInsert({...contentData, isPublic: false,
\* isTemplate: false, isFavorite: false, version: 1})).select().single()
ContentCreate(table, contentData) ==
  LET contentRecord ==
        transformForInsert(objectAssign(contentData,
          [isPublic |-> FALSE, isTemplate |-> FALSE, isFavorite |-> FALSE, version |-> 1]))
      id == CHOOSE i \in NewContentIds : i \notin DOMAIN table
  IN IF ~dbOnline \/ ~(DOMAIN contentRecord \subseteq ContentColumns)
     THEN [threw |-> TRUE, table |-> table]
     ELSE [threw |-> FALSE,
           table |-> [i \in DOMAIN table \cup {id} |->
                        IF i = id
                        THEN objectAssign([id |-> id, parent_content |-> NoParent],
                                          contentRecord)
                        ELSE table[i]]]

----------------------------------------------------------------------------
(* controllers/historyController.js *)

\* content.user === userId: a property the instance lacks reads as undefined
Owns(content, userId) == "user" \in DOMAIN content /\ content["user"] = userId

HistResult(result, table, count) == [result |-> result, table |-> table, count |-> count]

\* updateContent without the ownership check
updateContentNoOwnerCheck(table, contentId, userId, updates) ==
  LET r == ContentFindById(table, contentId) IN
  IF r.threw THEN HistResult("throw", table, 0)
  ELSE LET content == CHOOSE c \in r.found : TRUE
           updates2 == IF "content" \in DOMAIN updates \/ "title" \in DOMAIN updates
                       THEN objectAssign(updates, [version |-> content["version"] + 1])
                       ELSE updates
           s == ContentSave(table, objectAssign(content, updates2))
       IN HistResult(IF s.threw THEN "throw" ELSE "content", s.table, 0)

updateContent(table, contentId, userId, updates) ==
  LET r == ContentFindById(table, contentId) IN
  IF r.threw THEN HistResult("throw", table, 0)
  ELSE LET content == CHOOSE c \in r.found : TRUE IN
       IF ~Owns(content, userId) THEN HistResult("null", table, 0)
       ELSE LET updates2 == IF "content" \in DOMAIN updates \/ "title" \in DOMAIN updates
                            THEN objectAssign(updates, [version |-> content["version"] + 1])
                            ELSE updates
                s == ContentSave(table, objectAssign(content, updates2))
            IN HistResult(IF s.threw THEN "throw" ELSE "content", s.table, 0)

deleteContent(table, contentId, userId) ==
  LET r == ContentFindById(table, contentId) IN
  IF r.threw THEN HistResult("throw", table, 0)
  ELSE LET content == CHOOSE c \in r.found : TRUE IN
       IF ~Owns(content, userId) THEN HistResult("null", table, 0)
       ELSE LET d == ContentDeleteById(table, contentId)
            IN HistResult(IF d.threw THEN "throw" ELSE "content", d.table, 0)

toggleFavorite(table, contentId, userId) ==
  LET r == ContentFindById(table, contentId) IN
  IF r.threw THEN HistResult("throw", table, 0)
  ELSE LET content == CHOOSE c \in r.found : TRUE IN
       IF ~Owns(content, userId) THEN HistResult("null", table, 0)
       ELSE LET t == ContentToggleFavorite(table, content)
            IN HistResult(IF t.threw THEN "throw" ELSE "content", t.table, 0)

\* for (const contentId of contentIds) { findById; if owned: deleteById; count++ }
RECURSIVE bulkDeleteLoop(_, _, _, _)
bulkDeleteLoop(table, contentIds, userId, deletedCount) ==
  IF contentIds = <<>> THEN HistResult("count", table, deletedCount)
  ELSE LET r == ContentFindById(table, Head(contentIds)) IN
       IF r.threw THEN HistResult("throw", table, deletedCount)
       ELSE IF ~Owns(CHOOSE c \in r.found : TRUE, userId)
       THEN bulkDeleteLoop(table, Tail(contentIds), userId, deletedCount)
       ELSE LET d == ContentDeleteById(table, Head(contentIds)) IN
            IF d.threw THEN HistResult("throw", d.table, deletedCount)
            ELSE bulkDeleteLoop(d.table, Tail(contentIds), userId, deletedCount + 1)

bulkDeleteContent(table, contentIds, userId) == bulkDeleteLoop(table, contentIds, userId, 0)

\* for (const contentId of contentIds) { findById; if owned: isFavorite = favorite; save }
RECURSIVE bulkToggleLoop(_, _, _, _, _)
bulkToggleLoop(table, contentIds, userId, favorite, modifiedCount) ==
  IF contentIds = <<>> THEN HistResult("count", table, modifiedCount)
  ELSE LET r == ContentFindById(table, Head(contentIds)) IN
       IF r.threw THEN HistResult("throw", table, modifiedCount)
       ELSE LET content == CHOOSE c \in r.found : TRUE IN
            IF ~Owns(content, userId)
            THEN bulkToggleLoop(table, Tail(contentIds), userId, favorite, modifiedCount)
            ELSE LET s == ContentSave(table, objectAssign(content, [isFavorite |-> favorite])) IN
                 IF s.threw THEN HistResult("throw", s.table, modifiedCount)
                 ELSE bulkToggleLoop(s.table, Tail(contentIds), userId, favorite,
                                     modifiedCount + 1)

bulkToggleFavorite(table, contentIds, userId, favorite) ==
  bulkToggleLoop(table, contentIds, userId, favorite, 0)

\* duplicateContent: findById, ownership check, ContentSupabase.create
duplicateContent(table, contentId, userId) ==
  LET r == ContentFindById(table, contentId) IN
  IF r.threw THEN HistResult("throw", table, 0)
  ELSE LET originalContent == CHOOSE c \in r.found : TRUE IN
       IF ~Owns(originalContent, userId) THEN HistResult("null", table, 0)
       ELSE LET c == ContentCreate(table,
                       [user |-> userId, type |-> originalContent["type"],
                        title |-> "copy", tags |-> originalContent["tags"],
                        parentContent |-> originalContent["id"], version |-> 1,
                        isPublic |-> FALSE])
            IN HistResult(IF c.threw THEN "throw" ELSE "content", c.table, 0)

\* isAccessible(userId): this.isPublic, or this.user === userId
isAccessible(content, userId) == truthy(content, "isPublic") \/ Owns(content, userId)

getContentById(table, contentId, userId) ==
  LET r == ContentFindById(table, contentId) IN
  IF r.threw THEN HistResult("throw", table, 0)
  ELSE IF ~isAccessible(CHOOSE c \in r.found : TRUE, userId) THEN HistResult("null", table, 0)
  ELSE HistResult("content", table, 0)

\* POST /api/history: `isPublic = false` when the body has none, then
\* saveContent({ user: req.user.id, type, title, tags, isPublic })
saveContent(table, userId, body) ==
  LET isPublic == IF "isPublic" \in DOMAIN body THEN body["isPublic"] ELSE FALSE
      c == ContentCreate(table, [user |-> userId, type |-> "resume", title |-> "T",
                                 tags |-> <<>>, isPublic |-> isPublic])
  IN HistResult(IF c.threw THEN "throw" ELSE "content", c.table, 0)

MaxSearchLimit == 50

\* findByUserAndType: select('*').eq('user', userId).eq('type', contentType); a
\* filter on a name that is no column is an error, which handleSupabaseError throws
ContentFindByUserAndType(table, userId, contentType) ==
  IF ~dbOnline \/ "user" \notin ContentColumns THEN [threw |-> TRUE, found |-> {}]
  ELSE [threw |-> FALSE,
        found |-> {transformRecord(table[i]) :
                     i \in {i \in DOMAIN table : /\ table[i]["user"] = userId
                                                 /\ table[i]["type"] = contentType}}]

\* some enumeration of a finite set (the rows of the model carry no created_at
\* to sort by)
SeqOf(S) ==
  CHOOSE s \in [1..Cardinality(S) -> S] : \A i, j \in 1..Cardinality(S) : s[i] = s[j] => i = j

\* GET /search/advanced: the search options built from req.query, where "" stands
\* for a parameter that the request does not give
searchOptions(query) ==
  [type |-> query.type,
   isFavorite |-> query.isFavorite = "true",
   isPublic |-> query.isPublic = "true",
   page |-> query.page,
   limit |-> IF query.limit < MaxSearchLimit THEN query.limit ELSE MaxSearchLimit]

\* searchContent: findByUserAndType(userId, type || ''), the favorite and public
\* filters, then slice(skip, skip + limit)
searchContent(table, userId, options) ==
  LET allContent == ContentFindByUserAndType(table, userId, options.type)
      filteredContent ==
        SeqOf({c["id"] : c \in {c \in allContent.found :
                                  /\ truthy(c, "isFavorite") = options.isFavorite
                                  /\ truthy(c, "isPublic") = options.isPublic}})
      skip == (options.page - 1) * options.limit
  IN IF allContent.threw
     THEN [result |-> "throw", items |-> <<>>, totalCount |-> 0]
     ELSE [result |-> "content",
           items |-> SubSeq(filteredContent, skip + 1,
                            IF skip + options.limit < Len(filteredContent)
                            THEN skip + options.limit ELSE Len(filteredContent)),
           totalCount |-> Len(filteredContent)]

----------------------------------------------------------------------------
(* The history controller called by two users on a table that holds a record *)
(* of each                                                                    *)

\* the ids a request can name: those of the rows and one that names no row
TargetIds == ContentIds \cup {"c9"}
BulkTargets == {<<"c1">>, <<"c2", "c1">>, <<"c1", "c9", "c2">>}

UpdateInputs ==
  {[title |-> "New"], [isFavorite |-> TRUE]}
  \cup {[user |-> u] : u \in ContentUsers}
  \cup {[id |-> c, title |-> "New"] : c \in ContentIds}

\* a row of table content, as the setup script's columns and defaults give it
ContentRow(id, owner, version, isPublic, isFavorite) ==
  [id |-> id, user_id |-> owner, type |-> "resume", title |-> "T", tags |-> <<"t1">>,
   is_public |-> isPublic, is_favorite |-> isFavorite, version |-> version,
   parent_content |-> NoParent]

InitHistory ==
  /\ InitAuth
  /\ dbOnline = TRUE
  /\ inflight = <<>> /\ created = {}
  /\ atsEarlier = [op |-> "none"] /\ atsLast = [op |-> "none"]
  /\ histLast = [op |-> "none"]
  /\ InitExtra
  /\ \E v \in {1, 3}, p \in BOOLEAN, f \in BOOLEAN :
       contents = [i \in ContentIds |->
                     IF i = "c1" THEN ContentRow("c1", "U", v, p, FALSE)
                     ELSE ContentRow("c2", "V", 1, FALSE, f)]

HistCall(op, caller, ids, updates, res) ==
  /\ contents' = res.table
  /\ histLast' = [op |-> op, caller |-> caller, ids |-> ids, updates |-> updates,
                  pre |-> contents, result |-> res.result, count |-> res.count]
  /\ UNCHANGED <<authVars, concVars, atsEarlier, atsLast, extraVars>>

UpdateContent(id, u, updates) ==
  HistCall("updateContent", u, <<id>>, updates, updateContent(contents, id, u, updates))

DeleteContent(id, u) ==
  HistCall("deleteContent", u, <<id>>, EmptyMap, deleteContent(contents, id, u))

ToggleFavorite(id, u) ==
  HistCall("toggleFavorite", u, <<id>>, EmptyMap, toggleFavorite(contents, id, u))

BulkDeleteContent(ids, u) ==
  HistCall("bulkDeleteContent", u, ids, EmptyMap, bulkDeleteContent(contents, ids, u))

BulkToggleFavorite(ids, u, favorite) ==
  HistCall("bulkToggleFavorite", u, ids, [favorite |-> favorite],
           bulkToggleFavorite(contents, ids, u, favorite))

DuplicateContent(id, u) ==
  HistCall("duplicateContent", u, <<id>>, EmptyMap, duplicateContent(contents, id, u))

SaveContent(u, body) ==
  HistCall("saveContent", u, <<>>, body, saveContent(contents, u, body))

GetContentById(id, u) ==
  HistCall("getContentById", u, <<id>>, EmptyMap, getContentById(contents, id, u))

SearchQueries ==
  [type : {"", "resume"}, isFavorite : {"", "true", "false"},
   isPublic : {"", "true", "false"}, page : {1, 2}, limit : {1, 20, 100}]

SearchContent(u, query) ==
  LET res == searchContent(contents, u, searchOptions(query))
  IN /\ histLast' = [op |-> "searchContent", caller |-> u, ids |-> <<>>, updates |-> query,
                     pre |-> contents, result |-> res.result, count |-> res.totalCount,
                     items |-> res.items]
     /\ UNCHANGED <<authVars, concVars, contents, atsEarlier, atsLast, extraVars>>

NextHistory ==
  \/ \E u \in ContentUsers, query \in SearchQueries : SearchContent(u, query)
  \/ \E u \in ContentUsers, body \in {EmptyMap} \cup {[isPublic |-> p] : p \in BOOLEAN} :
       SaveContent(u, body)
  \/ \E id \in TargetIds, u \in ContentUsers : GetContentById(id, u)
  \/ \E id \in TargetIds, u \in ContentUsers, updates \in UpdateInputs :
       UpdateContent(id, u, updates)
  \/ \E id \in TargetIds, u \in ContentUsers : DeleteContent(id, u)
  \/ \E id \in TargetIds, u \in ContentUsers : ToggleFavorite(id, u)
  \/ \E ids \in BulkTargets, u \in ContentUsers : BulkDeleteContent(ids, u)
  \/ \E ids \in BulkTargets, u \in ContentUsers, favorite \in BOOLEAN :
       BulkToggleFavorite(ids, u, favorite)
  \/ \E id \in TargetIds, u \in ContentUsers : DuplicateContent(id, u)

SpecHistory == InitHistory /\ [][NextHistory]_vars

SingleOps == {"updateContent", "deleteContent", "toggleFavorite", "duplicateContent"}

\* C13: after a history operation called by a user, every record that another
\* user owned is still stored and unchanged, every record still stored has the
\* owner and the id it had, and an operation aimed at one record that the
\* caller did not own returned null and left the table as it was.
C13_OwnershipRespected ==
  histLast.op # "none" =>
    LET pre == histLast.pre
        target == histLast.ids[1]
    IN /\ \A c \in DOMAIN pre :
            pre[c]["user_id"] # histLast.caller =>
              c \in DOMAIN contents /\ contents[c] = pre[c]
       /\ \A c \in DOMAIN pre \cap DOMAIN contents :
            contents[c]["user_id"] = pre[c]["user_id"] /\ contents[c]["id"] = c
       /\ (/\ histLast.op \in SingleOps
           /\ target \in DOMAIN pre
           /\ pre[target]["user_id"] # histLast.caller)
          => histLast.result = "null" /\ contents = pre

\* updateContent called on a record that another user owns
C13_Witness ==
  /\ histLast.op = "updateContent"
  /\ histLast.ids[1] \in DOMAIN histLast.pre
  /\ histLast.pre[histLast.ids[1]]["user_id"] # histLast.caller
  /\ histLast.result = "null"

\* C14: duplicateContent called by the owner of a stored record adds exactly
\* one record, with version 1, not public, the original's id as parent, the
\* caller as owner and the original's type and tags, and changes no other row.
C14_DuplicateCreatesCopy ==
  (/\ histLast.op = "duplicateContent"
   /\ histLast.ids[1] \in DOMAIN histLast.pre
   /\ histLast.pre[histLast.ids[1]]["user_id"] = histLast.caller)
  => LET pre == histLast.pre
         orig == pre[histLast.ids[1]]
     IN /\ \A c \in DOMAIN pre : c \in DOMAIN contents /\ contents[c] = pre[c]
        /\ \E n \in DOMAIN contents \ DOMAIN pre :
             /\ DOMAIN contents \ DOMAIN pre = {n}
             /\ contents[n]["version"] = 1
             /\ contents[n]["is_public"] = FALSE
             /\ contents[n]["parent_content"] = orig["id"]
             /\ contents[n]["user_id"] = histLast.caller
             /\ contents[n]["type"] = orig["type"]
             /\ contents[n]["tags"] = orig["tags"]

----------------------------------------------------------------------------
(* The ATS scorer of the analyzer controller. A word is the sequence of its  *)
(* characters; a text is described by what the scorer's patterns read of it  *)

\* the words of the sample texts
Word ==
  [experience |-> <<"e", "x", "p", "e", "r", "i", "e", "n", "c", "e">>,
   education |-> <<"e", "d", "u", "c", "a", "t", "i", "o", "n">>,
   skills |-> <<"s", "k", "i", "l", "l", "s">>,
   email |-> <<"e", "m", "a", "i", "l">>,
   managed |-> <<"m", "a", "n", "a", "g", "e", "d">>,
   agile |-> <<"a", "g", "i", "l", "e">>,
   leadership |-> <<"l", "e", "a", "d", "e", "r", "s", "h", "i", "p">>,
   managing |-> <<"m", "a", "n", "a", "g", "i", "n", "g">>,
   the |-> <<"t", "h", "e">>,
   year |-> <<"2", "0", "2", "0">>]

\* the words that assessKeywords never counts
StopWords ==
  {<<"w", "i", "t", "h">>,
   <<"f", "r", "o", "m">>,
   <<"t", "h", "i", "s">>,
   <<"t", "h", "a", "t">>,
   <<"w", "i", "l", "l">>,
   <<"h", "a", "v", "e">>,
   <<"b", "e", "e", "n">>,
   <<"w", "e", "r", "e">>}

\* word.includes(sub)
includes(word, sub) ==
  \E i \in 1..(Len(word) - Len(sub) + 1) : SubSeq(word, i, i + Len(sub) - 1) = sub

\* the value of 0 / 0, which every arithmetic operation hands on
NaN == 0 - 1000000

plus(a, b) == IF a = NaN \/ b = NaN THEN NaN ELSE a + b
mathMin(a, b) == IF a = NaN \/ b = NaN THEN NaN ELSE IF a < b THEN a ELSE b
\* a >= b and a < b, both false when a is NaN
atLeast(a, b) == a # NaN /\ a >= b
lessThan(a, b) == a # NaN /\ a < b

\* Math.round((matches / n) * 25): the nearest integer, halves upwards
roundShare(matches, n) == IF n = 0 THEN NaN ELSE (50 * matches + n) \div (2 * n)

\* whether some word of the set occurs in the text
hasAny(text, ws) == text.words \cap ws # {}

assessFormatting(resumeText) ==
  LET hasConsistentSpacing == ~resumeText.tabsOrWideSpaces
      hasSections == hasAny(resumeText, {Word.experience, Word.education, Word.skills})
      bulletCount == resumeText.bulletCount
      lines == resumeText.lines
      score == 5 + (IF hasConsistentSpacing THEN 5 ELSE 0) + (IF hasSections THEN 5 ELSE 0)
               + (IF bulletCount > 0 /\ bulletCount < 50 THEN 5 ELSE 0)
               + (IF lines > 20 /\ lines < 100 THEN 5 ELSE 0)
  IN mathMin(score, 25)

\* the filter of job words: longer than 4, no stop word, and holding 'ing',
\* 'er' or 'ly' or longer than 6
important(word) ==
  /\ Len(word) > 4
  /\ word \notin StopWords
  /\ \/ includes(word, <<"i", "n", "g">>)
     \/ includes(word, <<"e", "r">>)
     \/ includes(word, <<"l", "y">>)
     \/ Len(word) > 6

assessKeywords(resumeText, jobDescription) ==
  IF jobDescription = <<>> THEN 15
  ELSE LET importantJobWords == SelectSeq(jobDescription, important)
           matches == Len(SelectSeq(importantJobWords, LAMBDA jw : jw \in resumeText.words))
       IN mathMin(roundShare(matches, Len(importantJobWords)), 25)

assessStructure(resumeText) ==
  LET score == (IF hasAny(resumeText, {Word.email}) THEN 5 ELSE 0)
               + (IF Word.experience \in resumeText.words THEN 3 ELSE 0)
               + (IF Word.education \in resumeText.words THEN 3 ELSE 0)
               + (IF Word.skills \in resumeText.words THEN 3 ELSE 0)
               + (IF Word.year \in resumeText.words THEN 3 ELSE 0)
               + (IF hasAny(resumeText, {Word.managed}) THEN 3 ELSE 0)
  IN mathMin(score, 20)

\* how many times an action verb occurs in the text
verbOccurrences(resumeText) ==
  IF "verbOccurrences" \in DOMAIN resumeText THEN resumeText["verbOccurrences"]
  ELSE IF hasAny(resumeText, {Word.managed}) THEN 1 ELSE 0

\* resumeText.match(actionVerbs) without the g flag: the first match and its one
\* group, whatever the number of occurrences
actionVerbCount(resumeText) == IF verbOccurrences(resumeText) > 0 THEN 2 ELSE 0

assessContent(resumeText) ==
  LET score == (IF resumeText.quantified THEN 5 ELSE 0)
               + (IF actionVerbCount(resumeText) > 5 THEN 4 ELSE 0)
               + (IF hasAny(resumeText, {Word.agile}) THEN 3 ELSE 0)
               + (IF hasAny(resumeText, {Word.leadership}) THEN 3 ELSE 0)
  IN mathMin(score, 15)

\* the text captured after "skills", none when the pattern does not match
assessSkillsSection(resumeText) ==
  IF resumeText.skillsText = {} THEN 0
  ELSE LET skillsText == CHOOSE s \in resumeText.skillsText : TRUE
           score == (IF skillsText.skillCount >= 5 /\ skillsText.skillCount <= 20
                     THEN 5 ELSE 0)
                    + (IF skillsText.length > 50 THEN 5 ELSE 0)
                    + (IF skillsText.technical THEN 3 ELSE 0)
                    + (IF skillsText.soft THEN 2 ELSE 0)
       IN mathMin(score, 15)

getGradeFromScore(score) ==
  IF atLeast(score, 90) THEN "A"
  ELSE IF atLeast(score, 80) THEN "B"
  ELSE IF atLeast(score, 70) THEN "C"
  ELSE IF atLeast(score, 60) THEN "D"
  ELSE "F"

\* getFormattingFeedback, getKeywordFeedback, getStructureFeedback,
\* getContentFeedback, getSkillsFeedback: four-step ladders that differ in their
\* thresholds; the texts are named by their rank
feedback(score, top, good, fair) ==
  IF atLeast(score, top) THEN "excellent"
  ELSE IF atLeast(score, good) THEN "good"
  ELSE IF atLeast(score, fair) THEN "moderate"
  ELSE "poor"

generateATSRecommendations(details) ==
  (IF lessThan(details.formatting.score, 20) THEN <<"formatting">> ELSE <<>>)
  \o (IF lessThan(details.keywords.score, 20) THEN <<"keywords">> ELSE <<>>)
  \o (IF lessThan(details.structure.score, 15) THEN <<"structure">> ELSE <<>>)
  \o (IF lessThan(details.content.score, 12) THEN <<"content">> ELSE <<>>)
  \o (IF lessThan(details.skills.score, 12) THEN <<"skills">> ELSE <<>>)

detail(score, maxScore, text) == [score |-> score, maxScore |-> maxScore, feedback |-> text]

\* calculateATSScore with the clock added into the score
calculateATSScoreClocked(resumeText, jobDescription) ==
  LET formattingScore == assessFormatting(resumeText)
      keywordScore == assessKeywords(resumeText, jobDescription)
      structureScore == assessStructure(resumeText)
      contentScore == assessContent(resumeText)
      skillsScore == assessSkillsSection(resumeText)
      score == plus(plus(plus(plus(plus(formattingScore, keywordScore), structureScore),
                              contentScore), skillsScore),
                   IF now = 0 THEN 0 ELSE 1)
      details == [formatting |-> detail(formattingScore, 25, feedback(formattingScore, 20, 15, 10)),
                  keywords |-> detail(keywordScore, 25, feedback(keywordScore, 20, 15, 10)),
                  structure |-> detail(structureScore, 20, feedback(structureScore, 15, 10, 5)),
                  content |-> detail(contentScore, 15, feedback(contentScore, 12, 8, 4)),
                  skills |-> detail(skillsScore, 15, feedback(skillsScore, 12, 8, 4))]
  IN [overallScore |-> score, score |-> score, maxScore |-> 100,
      grade |-> getGradeFromScore(score), details |-> details,
      recommendations |-> generateATSRecommendations(details), lastUpdated |-> now]

\* percentage = Math.round((score / 100) * 100), which is score itself
calculateATSScore(resumeText, jobDescription) ==
  LET formattingScore == assessFormatting(resumeText)
      keywordScore == assessKeywords(resumeText, jobDescription)
      structureScore == assessStructure(resumeText)
      contentScore == assessContent(resumeText)
      skillsScore == assessSkillsSection(resumeText)
      score == plus(plus(plus(plus(formattingScore, keywordScore), structureScore),
                         contentScore), skillsScore)
      details == [formatting |-> detail(formattingScore, 25, feedback(formattingScore, 20, 15, 10)),
                  keywords |-> detail(keywordScore, 25, feedback(keywordScore, 20, 15, 10)),
                  structure |-> detail(structureScore, 20, feedback(structureScore, 15, 10, 5)),
                  content |-> detail(contentScore, 15, feedback(contentScore, 12, 8, 4)),
                  skills |-> detail(skillsScore, 15, feedback(skillsScore, 12, 8, 4))]
  IN [overallScore |-> score, score |-> score, maxScore |-> 100,
      grade |-> getGradeFromScore(score), details |-> details,
      recommendations |-> generateATSRecommendations(details), lastUpdated |-> now]

----------------------------------------------------------------------------
(* calculateATSScore called on sample texts *)

MaxJobWords == 2

\* what the scorer's patterns read of a resume text
Resume(words, tabsOrWideSpaces, bulletCount, lines, quantified, skillsText) ==
  [words |-> words, tabsOrWideSpaces |-> tabsOrWideSpaces, bulletCount |-> bulletCount,
   lines |-> lines, quantified |-> quantified, skillsText |-> skillsText]

SkillsText(skillCount, length, technical, soft) ==
  [skillCount |-> skillCount, length |-> length, technical |-> technical, soft |-> soft]

ResumeTexts ==
  {Resume({Word.the}, FALSE, 0, 1, FALSE, {}),
   Resume({Word.experience, Word.education, Word.skills, Word.email, Word.year, Word.managed, Word.agile,
           Word.leadership, Word.the}, FALSE, 3, 30, TRUE, {SkillsText(6, 60, TRUE, TRUE)}),
   Resume({Word.experience, Word.managed, Word.managing}, TRUE, 50, 100, FALSE, {}),
   Resume({Word.skills, Word.email, Word.leadership}, FALSE, 1, 21, TRUE,
          {SkillsText(2, 20, TRUE, FALSE)})}

\* job descriptions as their words in order; the empty one is ''
JobDescriptions ==
  UNION {[1..n -> {Word.the, Word.managing, Word.leadership}] : n \in 0..MaxJobWords}

CalculateATSScore(resumeText, jobDescription, remember) ==
  LET call == [op |-> "calculateATSScore", resumeText |-> resumeText,
               jobDescription |-> jobDescription,
               result |-> calculateATSScore(resumeText, jobDescription)]
  IN /\ atsLast' = call
     /\ atsEarlier' = IF remember /\ atsLast.op # "none" THEN atsLast ELSE atsEarlier
     /\ UNCHANGED <<authVars, concVars, contents, histLast, extraVars>>

InitAts == InitAuth /\ dbOnline = FALSE /\ InitOther

NextAts ==
  \/ \E r \in ResumeTexts, jd \in JobDescriptions : CalculateATSScore(r, jd, FALSE)
  \/ Tick

SpecAts == InitAts /\ [][NextAts]_vars

\* pairs of calls: an earlier call is remembered while later ones are made
PairJobDescriptions == {<<>>, <<Word.the>>, <<Word.leadership>>, <<Word.managing, Word.leadership>>}

NextAtsPair ==
  \/ \E r \in ResumeTexts, jd \in PairJobDescriptions, remember \in BOOLEAN :
       CalculateATSScore(r, jd, remember)
  \/ Tick

SpecAtsPair == InitAts /\ [][NextAtsPair]_vars

\* the fields of a result other than lastUpdated
Scores(result) ==
  [overallScore |-> result.overallScore, score |-> result.score, grade |-> result.grade,
   details |-> result.details, recommendations |-> result.recommendations]

C16_ScoreIsSum ==
  atsLast.op # "none" =>
    LET d == atsLast.result.details IN
    /\ atsLast.result.score = plus(plus(plus(plus(d.formatting.score, d.keywords.score),
                                              d.structure.score), d.content.score),
                                   d.skills.score)
    /\ <<d.formatting.maxScore, d.keywords.maxScore, d.structure.maxScore,
         d.content.maxScore, d.skills.maxScore>> = <<25, 25, 20, 15, 15>>
    /\ atsLast.result.overallScore = atsLast.result.score
    /\ atsLast.result.overallScore \in 0..100

\* C17: the keyword score is an integer in 0..25 for every resume and job
\* description, and is 15 when the job description is empty.
C17_KeywordScoreInRange ==
  atsLast.op # "none" =>
    /\ atsLast.result.details.keywords.score \in 0..25
    /\ atsLast.jobDescription = <<>> => atsLast.result.details.keywords.score = 15


----------------------------------------------------------------------------
(* Password reset: POST /reset-password/:token after POST /forgot-password *)

MaxResetTicks == 2     \* five-minute steps the clock of the reset harness may advance by
ResetTickSec == ResetExpireSec \div 2

ResetTokens == {"tok1", "tok2"}
ResetPasswords == {"newpass", "short"}

\* UserModel.find({ passwordResetToken }): UserLocal defines no static find, so
\* the call throws a TypeError; UserSupabase selects the rows whose
\* password_reset_token equals the filter and transforms each of them
Find(model, passwordResetToken) ==
  IF model = "UserLocal" THEN [threw |-> TRUE, found |-> {}]
  ELSE IF ~dbOnline THEN [threw |-> TRUE, found |-> {}]
  ELSE [threw |-> FALSE,
        found |-> {transformRecord(dbUsers[i]) :
                     i \in {i \in DOMAIN dbUsers :
                              /\ "password_reset_token" \in DOMAIN dbUsers[i]
                              /\ dbUsers[i]["password_reset_token"] = passwordResetToken}}]

\* POST /reset-password/:token
ResetPasswordOutcome(token, password) ==
  IF PasswordLen(password) < MinPasswordLen THEN Respond(400, "Validation failed")
  ELSE LET users == Find(UserModel, sha256(token))
           valid == {u \in users.found : /\ "password_reset_expires" \in DOMAIN u
                                         /\ u["password_reset_expires"] > now}
       IN IF users.threw THEN Respond(500, "Failed to reset password")
          ELSE IF valid = {} THEN Respond(400, "Invalid or expired reset token")
          ELSE LET u == CHOOSE u \in valid : TRUE
                   user == [k \in (DOMAIN u \cup {"password_hash"})
                                    \ {"password_reset_token", "password_reset_expires"} |->
                              IF k = "password_hash" THEN bcryptHash(password) ELSE u[k]]
               IN Outcome(200, "", {}, {}, localUsers,
                          [dbUsers EXCEPT ![user["id"]] = SbUpdatedRow(@, user)])

\* whether forgot-password generated this token for an account and it has not expired
ResetTokenValid(token) ==
  \E s \in resetSent : s.token = token /\ EmailStored(s.email) /\ now < s.expires

ResetPassword(token, password) ==
  LET out == ResetPasswordOutcome(token, password)
  IN /\ localUsers' = out.users
     /\ dbUsers' = out.db
     /\ last' = Handled([op |-> "reset", ip |-> "", email |-> "", password |-> password,
                         header |-> NoHeader, token |-> token],
                        [PreAuth(NoHeader) EXCEPT !.registered = ResetTokenValid(token)],
                        out.status, out.error, 0, {}, {},
                        out.users # localUsers \/ out.db # dbUsers)
     /\ UNCHANGED <<now, dbOnline, probeDone, UserModel, authAttempts, held, regPw,
                    passedLog, gatedSeen, reqUser, usageLast, otherVars>>

ResetTick ==
  /\ now < MaxResetTicks * ResetTickSec
  /\ now' = now + ResetTickSec
  /\ UNCHANGED <<dbOnline, probeDone, UserModel, localUsers, dbUsers, authAttempts, held,
                 regPw, last, passedLog, gatedSeen, reqUser, usageLast, otherVars>>

NextReset ==
  \/ InitializeUserModel
  \/ \E ip \in SpecIPs : Register(ip, [email |-> "a@b.com", password |-> "secret1",
                                       firstName |-> "A"])
  \/ \E e \in RawEmails : ForgotPassword(e, "tok1")
  \/ \E t \in ResetTokens, p \in ResetPasswords : ResetPassword(t, p)
  \/ \E id \in DbIds : DbInsertUser(id, "a@b.com")
  \/ ResetTick

SpecReset == Init /\ [][NextReset]_vars

\* C21: a reset-password request carrying a token that forgot-password generated
\* for a stored account, made before the token expires and with a password of at
\* least 6 characters, is answered 200.
C21_ResetSucceeds ==
  (/\ last.req.op = "reset"
   /\ last.pre.registered
   /\ PasswordLen(last.req.password) >= MinPasswordLen)
  => last.status = 200


----------------------------------------------------------------------------
(* incrementUsage called by requests that are in flight at the same time *)

MaxUsageReqs == 2      \* requests in flight at once

\* the subscription.usageCount that the store of the account's class holds
StoredUsageCount ==
  IF reqUser.class = "UserLocal"
  THEN localUsers[reqUser.user["email"]]["subscription"].usageCount
  ELSE dbUsers[reqUser.user["id"]]["subscription"].usageCount

\* protect: `const user = await UserModel.findById(decoded.userId); req.user = user`.
\* UserLocal.findById returns the object the Map holds; UserSupabase.findById
\* builds a new instance from the row it selects.
LoadReqUser ==
  LET r == FindById(reqUser.class, reqUser.user["id"])
  IN /\ Len(usageReqs) < MaxUsageReqs
     /\ ~r.threw /\ r.found # {}
     /\ usageReqs' = Append(usageReqs, CHOOSE u \in r.found : TRUE)
     /\ UNCHANGED <<authVars, concVars, nonUserVars, resetSent, cardLast>>

\* the object that req.user of an in-flight request refers to
ReqUserOf(k) ==
  IF reqUser.class = "UserLocal" THEN localUsers[usageReqs[k]["email"]] ELSE usageReqs[k]

\* req.user.incrementUsage() of the k-th request in flight, run by res.send; the
\* request then ends.  save() of a UserSupabase instance throws when the update fails
IncrementInFlight(k) ==
  LET user == incrementUsage(ReqUserOf(k))
      ok == reqUser.class = "UserLocal" \/ (dbOnline /\ user["id"] \in DOMAIN dbUsers)
  IN /\ k \in 1..Len(usageReqs)
     /\ StoredUsageCount <= MaxUsage
     /\ localUsers' = UsersAfterSave(reqUser.class, user)
     /\ dbUsers' = DbAfterSave(reqUser.class, user)
     /\ usageReqs' = SubSeq(usageReqs, 1, k - 1) \o SubSeq(usageReqs, k + 1, Len(usageReqs))
     /\ usageLast' = [op |-> "incrementInFlight", ok |-> ok, others |-> Len(usageReqs) - 1,
                      storedPre |-> StoredUsageCount,
                      storedPost |-> IF reqUser.class = "UserLocal"
                                     THEN user["subscription"].usageCount
                                     ELSE DbAfterSave(reqUser.class, user)[user["id"]]["subscription"].usageCount]
     /\ UNCHANGED <<now, dbOnline, probeDone, UserModel, authAttempts, held, regPw, last,
                    passedLog, gatedSeen, reqUser, concVars, nonUserVars, resetSent, cardLast>>

InitIncr == InitUsage /\ (reqUser.class = "UserSupabase" => dbOnline)

NextIncr ==
  \/ LoadReqUser
  \/ \E k \in 1..MaxUsageReqs : IncrementInFlight(k)

SpecIncr == InitIncr /\ [][NextIncr]_vars

\* C22: every incrementUsage call that completes successfully raises the stored
\* usageCount by exactly one, whatever other requests are in flight, so that k
\* completed calls raise it by exactly k.
C22_EachCallCounts ==
  (usageLast.op = "incrementInFlight" /\ usageLast.ok)
  => usageLast.storedPost = usageLast.storedPre + 1


----------------------------------------------------------------------------
(* What authRateLimit records *)

\* C23: the attempts that authRateLimit holds for an ip inside the window are
\* exactly the requests of that ip it let through, so a request is answered 429
\* only when 5 accepted requests of its own ip lie within the last 15 minutes,
\* however many requests were rejected and whatever other ips sent.
C23_RejectedNotRecorded ==
  /\ \A ip \in IPs :
       FilterWindow(authAttempts[ip]) = FilterWindow(passedLog[ip])
  /\ (last.req.op \in {"register", "login"} /\ last.status = 429)
       => last.pre.recent >= MaxAttempts

\* an ip was answered 429, its five accepted attempts have since left the window
\* while the other ip has attempts inside it
C23_Witness ==
  /\ last.req.op \in {"register", "login"}
  /\ last.status = 429
  /\ Len(authAttempts[last.req.ip]) = MaxAttempts
  /\ FilterWindow(authAttempts[last.req.ip]) = <<>>
  /\ \E ip \in IPs : ip # last.req.ip /\ FilterWindow(authAttempts[ip]) # <<>>


----------------------------------------------------------------------------
(* Failed logins *)

\* a login that reached the handler with an email no account has, or with a
\* password that no account was ever given
FailedLoginCase ==
  /\ last.req.op = "login"
  /\ last.model # ""
  /\ ~last.pre.stored \/ last.req.password \notin RegisterPasswords

\* C24: a login with an unknown email and a login with a known email and a wrong
\* password are both answered 401 'Invalid email or password' without a token,
\* and a login that is not answered 200 changes no user record.
C24_FailedLoginUniform ==
  /\ FailedLoginCase
       => /\ last.status = 401
          /\ last.error = "Invalid email or password"
          /\ last.token = {}
  /\ (last.req.op = "login" /\ last.status # 200) => ~last.changed


----------------------------------------------------------------------------
(* The handlers of PUT /me and GET /me, given the req.user that protect sets *)

\* request bodies: every subset of these properties
PutMeValues ==
  [firstName |-> "Z", bio |-> "hi", email |-> "evil@x.com", id |-> "X9",
   password_hash |-> bcryptHash("wrong12"), is_active |-> FALSE,
   subscription |-> [freeSubscription EXCEPT !.plan = "pro"]]

PutMeBodies == {[k \in ks |-> PutMeValues[k]] : ks \in SUBSET DOMAIN PutMeValues}

OtherRow ==
  [id |-> "D2", email |-> "c@d.com", password_hash |-> bcryptHash("secret1"),
   first_name |-> "Other", last_name |-> "User", is_active |-> TRUE,
   last_login |-> NoTime, subscription |-> freeSubscription]

\* two accounts in the store of the class, req.user the first of them
InitPutMe ==
  /\ now = 0
  /\ dbOnline \in BOOLEAN
  /\ probeDone = TRUE
  /\ \E class \in {"UserLocal", "UserSupabase"} :
       /\ UserModel = class
       /\ reqUser = [class |-> class,
                     user |-> IF class = "UserLocal"
                              THEN objectAssign(StoredRow(0), [id |-> "L1"])
                              ELSE transformRecord(StoredRow(0))]
       /\ localUsers = IF class = "UserLocal"
                       THEN LocalSet(LocalSet(EmptyMap, objectAssign(StoredRow(0), [id |-> "L1"])),
                                     objectAssign(OtherRow, [id |-> "L2"]))
                       ELSE EmptyMap
       /\ dbUsers = IF class = "UserSupabase"
                    THEN [i \in {"D1", "D2"} |-> IF i = "D1" THEN StoredRow(0) ELSE OtherRow]
                    ELSE EmptyMap
  /\ authAttempts = [ip \in IPs |-> <<>>]
  /\ held = EmptyMap
  /\ regPw = EmptyMap
  /\ last = NoRequest
  /\ passedLog = [ip \in IPs |-> <<>>]
  /\ gatedSeen = EmptyMap
  /\ usageLast = NoUsageCall
  /\ InitOther

\* the handler of GET /me
GetMeHandler(model, id) ==
  LET r == FindById(model, id)
  IN IF r.threw THEN Respond(500, "Failed to retrieve profile")
     ELSE IF r.found = {} THEN Respond(404, "User not found")
     ELSE Outcome(200, "", r.found, {}, localUsers, dbUsers)

\* the stores when the request arrived, and the firstName that the request
\* handled just before had put with success
ProfilePre ==
  [users |-> localUsers, db |-> dbUsers,
   putFirstName |-> IF /\ last.req.op = "putme" /\ last.status = 200
                       /\ "firstName" \in DOMAIN last.req.updates
                    THEN {last.req.updates["firstName"]} ELSE {}]

ProfileCall(op, updates, out) ==
  /\ localUsers' = out.users
  /\ dbUsers' = out.db
  /\ last' = [Handled([op |-> op, updates |-> updates], ProfilePre, out.status, out.error,
                      1, {reqUser.user}, {}, out.users # localUsers \/ out.db # dbUsers)
                EXCEPT !.body = {ToJSON(reqUser.class, u) : u \in out.user}]
  /\ UNCHANGED <<now, dbOnline, probeDone, UserModel, authAttempts, held, regPw,
                 passedLog, gatedSeen, reqUser, usageLast, otherVars>>

PutMeCall(updates) ==
  ProfileCall("putme", updates, PutMeHandler(UserModel, reqUser.user["id"], updates))

GetMeCall ==
  ProfileCall("me", EmptyMap, GetMeHandler(UserModel, reqUser.user["id"]))

NextPutMe ==
  \/ \E updates \in PutMeBodies : PutMeCall(updates)
  \/ GetMeCall

SpecPutMe == InitPutMe /\ [][NextPutMe]_vars

\* the properties and columns that PUT /me may set
AllowedColumns == AllowedUpdates \cup {snakeKey(k) : k \in AllowedUpdates}

\* whether the record `after` differs from `before` in allow-listed properties only
OnlyAllowedChanged(before, after) ==
  /\ DOMAIN before \subseteq DOMAIN after
  /\ DOMAIN after \ DOMAIN before \subseteq AllowedColumns
  /\ \A k \in DOMAIN before \ AllowedColumns : after[k] = before[k]

\* C25: PUT /me leaves every property of the caller's record outside the allow
\* list, and every other record, as it was; when it sets firstName, the response
\* and a GET /me that follows return the new firstName.
C25_OnlyAllowedFieldsChange ==
  /\ last.req.op = "putme"
       => /\ DOMAIN localUsers = DOMAIN last.pre.users
          /\ DOMAIN dbUsers = DOMAIN last.pre.db
          /\ \A e \in DOMAIN localUsers :
               IF localUsers[e]["id"] = reqUser.user["id"]
               THEN OnlyAllowedChanged(last.pre.users[e], localUsers[e])
               ELSE localUsers[e] = last.pre.users[e]
          /\ \A i \in DOMAIN dbUsers :
               IF i = reqUser.user["id"]
               THEN OnlyAllowedChanged(last.pre.db[i], dbUsers[i])
               ELSE dbUsers[i] = last.pre.db[i]
          /\ (last.status = 200 /\ "firstName" \in DOMAIN last.req.updates)
               => \E b \in last.body : b["firstName"] = last.req.updates["firstName"]
  /\ (last.req.op = "me" /\ last.status = 200)
       => \A n \in last.pre.putFirstName : \E b \in last.body : b["firstName"] = n


----------------------------------------------------------------------------
(* Saving and reading content *)

\* C26: saving content stores one new record whose public flag is the isPublic
\* of the request body, false when the body has none; reading a stored record
\* by id returns it to its owner, and to another user exactly when it is public.
C26_IsPublicStored ==
  /\ histLast.op = "saveContent"
       => /\ histLast.result = "content"
          /\ \E n \in DOMAIN contents \ DOMAIN histLast.pre :
               /\ DOMAIN contents \ DOMAIN histLast.pre = {n}
               /\ contents[n]["is_public"] =
                    ("isPublic" \in DOMAIN histLast.updates /\ histLast.updates["isPublic"])
  /\ (histLast.op = "getContentById" /\ histLast.ids[1] \in DOMAIN histLast.pre)
       => LET row == histLast.pre[histLast.ids[1]]
          IN histLast.result = "content"
               <=> (row["is_public"] \/ row["user_id"] = histLast.caller)


----------------------------------------------------------------------------
(* The advanced search *)

\* the ids of the caller's records that pass the filters the request gives
SearchExpected ==
  LET q == histLast.updates
      pre == histLast.pre
  IN {c \in DOMAIN pre :
        /\ pre[c]["user_id"] = histLast.caller
        /\ q.type = "" \/ pre[c]["type"] = q.type
        /\ q.isFavorite = "" \/ pre[c]["is_favorite"] = (q.isFavorite = "true")
        /\ q.isPublic = "" \/ pre[c]["is_public"] = (q.isPublic = "true")}

\* C27: the advanced search returns the records of the caller that pass the
\* filters the request gives, a favorite or public filter being applied only
\* when its parameter is given; a page holds at most 50 records, all of them
\* from that result, and the total reported is the size of the result.
C27_SearchFilters ==
  histLast.op = "searchContent"
    => /\ histLast.result = "content"
       /\ histLast.count = Cardinality(SearchExpected)
       /\ {histLast.items[i] : i \in 1..Len(histLast.items)} \subseteq SearchExpected
       /\ Len(histLast.items) <= MaxSearchLimit
       /\ (histLast.updates.page = 1 /\ histLast.updates.limit > 1)
            => Len(histLast.items) = Cardinality(SearchExpected)


----------------------------------------------------------------------------
(* assessContent called on texts with a given number of action verbs *)

MaxVerbs == 6          \* most occurrences of an action verb in a sample text

\* a text with n occurrences of an action verb
ContentText(quantified, n, technical, soft) ==
  objectAssign(
    Resume((IF n > 0 THEN {Word.managed} ELSE {})
             \cup (IF technical THEN {Word.agile} ELSE {})
             \cup (IF soft THEN {Word.leadership} ELSE {}),
           FALSE, 0, 1, quantified, {}),
    [verbOccurrences |-> n])

AssessContent(resumeText) ==
  /\ atsLast' = [op |-> "assessContent", resumeText |-> resumeText,
                 result |-> assessContent(resumeText)]
  /\ UNCHANGED <<authVars, concVars, contents, histLast, atsEarlier, extraVars>>

NextContent ==
  \/ \E q \in BOOLEAN, n \in 0..MaxVerbs, t \in BOOLEAN, s \in BOOLEAN :
       AssessContent(ContentText(q, n, t, s))
  \/ Tick

SpecContent == InitAts /\ [][NextContent]_vars

\* C28: a text with more than 5 occurrences of an action verb gets the 4
\* action-verb points, so that with a quantified achievement, a technical term
\* and a soft-skill term it scores 15; every content score lies in 0..15.
C28_ActionVerbPoints ==
  atsLast.op = "assessContent"
    => LET r == atsLast.resumeText
           rest == (IF r.quantified THEN 5 ELSE 0)
                   + (IF hasAny(r, {Word.agile}) THEN 3 ELSE 0)
                   + (IF hasAny(r, {Word.leadership}) THEN 3 ELSE 0)
       IN /\ atsLast.result \in 0..15
          /\ verbOccurrences(r) > 5 => atsLast.result = rest + 4


----------------------------------------------------------------------------
(* controllers/flashcardController.js: generateStudyPlan *)

MaxCards == 12         \* longest flashcardIds list
MaxStudyDays == 3      \* largest studyDays
MinDailyCards == 5
MaxDailyCards == 7     \* largest dailyCards

\* Math.ceil(a / b) for a >= 0 and b > 0
ceilDiv(a, b) == (a + b - 1) \div b

\* Array.prototype.slice(start, end) with 0 <= start
slice(s, start, end) == SubSeq(s, start + 1, IF end < Len(s) THEN end ELSE Len(s))

generateStudyPlan(flashcardIds, studyDays, dailyCards) ==
  LET totalCards == Len(flashcardIds)
      cardsPerDay == mathMin(dailyCards, ceilDiv(totalCards, studyDays))
  IN [totalCards |-> totalCards,
      studyDays |-> studyDays,
      cardsPerDay |-> cardsPerDay,
      schedule |->
        [day \in 1..studyDays |->
           LET startIndex == (day - 1) * cardsPerDay
               endIndex == mathMin(startIndex + cardsPerDay, totalCards)
               dayCards == slice(flashcardIds, startIndex, endIndex)
           IN [day |-> day, cards |-> dayCards, cardCount |-> Len(dayCards)]]]

\* a list of n flashcard ids, each naming its position
CardIds(n) == [i \in 1..n |-> i]

GenerateStudyPlan(n, studyDays, dailyCards) ==
  /\ cardLast' = [op |-> "generateStudyPlan", flashcardIds |-> CardIds(n),
                  studyDays |-> studyDays, dailyCards |-> dailyCards,
                  result |-> generateStudyPlan(CardIds(n), studyDays, dailyCards)]
  /\ UNCHANGED <<authVars, concVars, nonUserVars, resetSent, usageReqs>>

NextPlan ==
  \E n \in 1..MaxCards, studyDays \in 1..MaxStudyDays,
     dailyCards \in MinDailyCards..MaxDailyCards :
    GenerateStudyPlan(n, studyDays, dailyCards)

SpecPlan == InitAts /\ [][NextPlan]_vars

\* C29: the plan has studyDays entries of at most dailyCards cards each, every
\* position of the id list is in exactly one entry, and totalCards is the
\* number of cards scheduled.
C29_EveryCardScheduled ==
  cardLast.op = "generateStudyPlan"
    => LET plan == cardLast.result
           days == DOMAIN plan.schedule
           places == {<<d, j>> : d \in days, j \in 1..MaxCards}
           holds(p) == {x \in places : /\ x[2] <= Len(plan.schedule[x[1]].cards)
                                       /\ plan.schedule[x[1]].cards[x[2]] = p}
       IN /\ days = 1..cardLast.studyDays
          /\ \A d \in days : Len(plan.schedule[d].cards) <= cardLast.dailyCards
          /\ \A p \in 1..Len(cardLast.flashcardIds) : Cardinality(holds(p)) = 1
          /\ plan.totalCards =
               Cardinality({x \in places : x[2] <= Len(plan.schedule[x[1]].cards)})


----------------------------------------------------------------------------
(* controllers/flashcardController.js: scheduleNextReview *)

\* ease factors are counted in thousandths: 2.5 is 2500
EaseScale == 1000
DaySec == 86400

Ratings == {"again", "hard", "good", "easy"}
Algorithms == {"sm2", "leitner", "anki", "custom"}
FlashcardIds == {"f1", "f2"}

\* { again: 0, hard: 3, good: 4, easy: 5 }[performance] || 4, where 0 is falsy
quality(performance) ==
  LET q == CASE performance = "again" -> 0
             [] performance = "hard" -> 3
             [] performance = "good" -> 4
             [] performance = "easy" -> 5
  IN IF q = 0 THEN 4 ELSE q

\* currentEaseFactor + (0.1 - (5 - quality) * (0.08 + (5 - quality) * 0.02)),
\* not below 1.3
updateEaseFactor(currentEaseFactor, performance) ==
  LET d == 5 - quality(performance)
      newEaseFactor == currentEaseFactor + (100 - d * (80 + d * 20))
  IN IF newEaseFactor < 1300 THEN 1300 ELSE newEaseFactor

calculateSM2Interval(repetitions, easeFactor, previousInterval) ==
  IF repetitions = 0 THEN 1
  ELSE IF repetitions = 1 THEN 6
  ELSE ceilDiv(previousInterval * easeFactor, EaseScale)

\* the flashcard is the default one: the id is not looked up
scheduleNextReview(flashcardId, performance, algorithm) ==
  LET flashcard == [repetitions |-> 0, easeFactor |-> 2500, interval |-> 1]
      newEaseFactor == updateEaseFactor(flashcard.easeFactor, performance)
      calculated == calculateSM2Interval(flashcard.repetitions, newEaseFactor,
                                         flashcard.interval)
      hardInterval == ceilDiv(flashcard.interval * 1200, EaseScale)
      newInterval ==
        CASE performance = "again" -> 1
          [] performance = "hard" -> IF hardInterval < 1 THEN 1 ELSE hardInterval
          [] performance = "good" -> calculated
          [] performance = "easy" -> ceilDiv(flashcard.interval * newEaseFactor, EaseScale)
      newRepetitions ==
        IF performance \in {"good", "easy"} THEN flashcard.repetitions + 1
        ELSE IF performance = "again" THEN 0 ELSE flashcard.repetitions
  IN [flashcardId |-> flashcardId,
      nextReview |-> now + newInterval * DaySec,
      interval |-> newInterval,
      easeFactor |-> newEaseFactor,
      repetitions |-> newRepetitions,
      performance |-> performance,
      scheduledAt |-> now]

\* a call; the call made just before it is kept for comparison
ScheduleNextReview(flashcardId, performance, algorithm) ==
  /\ cardLast' = [op |-> "scheduleNextReview", flashcardId |-> flashcardId,
                  performance |-> performance, algorithm |-> algorithm,
                  result |-> scheduleNextReview(flashcardId, performance, algorithm),
                  earlier |-> IF cardLast.op = "scheduleNextReview"
                              THEN {[flashcardId |-> cardLast.flashcardId,
                                     performance |-> cardLast.performance,
                                     result |-> cardLast.result]}
                              ELSE {}]
  /\ UNCHANGED <<authVars, concVars, nonUserVars, resetSent, usageReqs>>

NextReview ==
  \/ \E f \in FlashcardIds, p \in Ratings, a \in Algorithms : ScheduleNextReview(f, p, a)
  \/ Tick

SpecReview == InitAts /\ [][NextReview]_vars

RatingRank(p) ==
  CASE p = "again" -> 0 [] p = "hard" -> 1 [] p = "good" -> 2 [] p = "easy" -> 3

\* C30: of two calls, the one with the better rating returns an interval at
\* least as long and a strictly larger ease factor; two calls with the same
\* rating return the same interval and ease factor whatever the flashcard id;
\* every interval is at least 1 day and every ease factor at least 1.3.
C30_MonotoneInRating ==
  cardLast.op = "scheduleNextReview"
    => /\ cardLast.result.interval >= 1
       /\ cardLast.result.easeFactor >= 1300
       /\ \A e \in cardLast.earlier :
            /\ RatingRank(e.performance) <= RatingRank(cardLast.performance)
                 => e.result.interval <= cardLast.result.interval
            /\ RatingRank(e.performance) < RatingRank(cardLast.performance)
                 => e.result.easeFactor < cardLast.result.easeFactor
            /\ e.performance = cardLast.performance
                 => /\ e.result.interval = cardLast.result.interval
                    /\ e.result.easeFactor = cardLast.result.easeFactor

====
